---- MODULE Spec2Model ----
(***************************************************************************)
(* Memory diagnostic engine of the STM32G473CB memory test firmware:       *)
(* the window rotation (memory_test_configuration.c), the test cycle       *)
(* scheduler (main.c), the backup-register fault record and the boot-time  *)
(* reset classification (watchdog_handler.c), and the flash ECC interrupt  *)
(* (ecc_handler.c).                                                        *)
(***************************************************************************)
EXTENDS Integers, Sequences, FiniteSets, TLC

VARIABLES
    pc,                   \* position of the main context: boot, init, idle, cycle, halt
    todo,                 \* the statements of the running test function still to run
    errors,               \* the local `errors` of the running test function
    csr,                  \* RCC->CSR reset flags
    bkp,                  \* RTC backup registers DR0..DR3 (survive a reset)
    testCycleCounter,
    currentTestMode,
    currentTestOperation,
    testConfig,
    status,               \* flashStatus, sram1Status, sram2Status, ccmStatus, cacheStatus
    eccErrorsDetected,
    flashSR,              \* pending FLASH status flags
    uartLast,             \* the last message sent on the UART
    trace,                \* what the main context did in the current cycle, in order
    mismatchesLeft,       \* model budget: test runs that may still report a fault
    eccLeft,              \* model budget: flash error events that may still occur
    crashesLeft,          \* model budget: faults and hangs that may still occur
    cycleLimit,           \* model bound: the cycles one session runs
    history,              \* the configurations a run of rotations went through
    memory,               \* the 32-bit words of the locations under test, by address
    cacheRun              \* the RunCacheTest call in progress: flash lock, local errors, HAL calls made

vars == << pc, todo, errors, csr, bkp, testCycleCounter, currentTestMode,
           currentTestOperation, testConfig, status, eccErrorsDetected, flashSR,
           uartLast, trace, mismatchesLeft, eccLeft, crashesLeft, cycleLimit, history, memory, cacheRun >>

(***************************************************************************)
(* Bounds of the model.                                                    *)
(***************************************************************************)
MaxCycle == 20
MaxMismatches == 1
MaxEccEvents == 1
MaxCrashes == 1
MaxCrashCycles == 1
MaxRotations == 120

(***************************************************************************)
(* Program constants.                                                      *)
(***************************************************************************)
FLASH_START_ADDR == \H08000000
FLASH_SIZE == \H80000
SRAM1_START_ADDR == \H20000000
SRAM1_SIZE == \H18000
SRAM2_START_ADDR == \H20018000
SRAM2_SIZE == \H8000
CCM_SRAM_START_ADDR == \H10000000
CCM_SRAM_SIZE == \H8000

RTC_BKP_DR0 == 0
RTC_BKP_DR1 == 1
RTC_BKP_DR2 == 2
RTC_BKP_DR3 == 3

ERROR_NONE == \H00
ERROR_ECC_DETECTED == \H06
ERROR_HARDFAULT == \H0A
ERROR_BUSFAULT == \H0B
ERROR_MEMMANAGE == \H0C
ERROR_USAGEFAULT == \H0D

NORMAL_TEST_CYCLE == 0
STRESS_TEST_CYCLE == 1
SRAM_ONLY_CYCLE == 2
FLASH_ONLY_CYCLE == 3
CACHE_ONLY_CYCLE == 4

\* The safety margins RotateTestParameters keeps free in each bank.
FlashMargin == \H1000
Sram1Margin == \H1000
Sram2Margin == \H400
CcmMargin == \H400

\* The strides RotateTestParameters advances each offset by.
FlashStride == \H10000
Sram1Stride == \H4000
Sram2Stride == \H1000
CcmStride == \H1000

Banks == {"flash", "sram1", "sram2", "ccm"}

BankStride(b) ==
    CASE b = "flash" -> FlashStride
      [] b = "sram1" -> Sram1Stride
      [] b = "sram2" -> Sram2Stride
      [] b = "ccm" -> CcmStride

BankSize(b) ==
    CASE b = "flash" -> FLASH_SIZE
      [] b = "sram1" -> SRAM1_SIZE
      [] b = "sram2" -> SRAM2_SIZE
      [] b = "ccm" -> CCM_SRAM_SIZE

BankBase(b) ==
    CASE b = "flash" -> FLASH_START_ADDR
      [] b = "sram1" -> SRAM1_START_ADDR
      [] b = "sram2" -> SRAM2_START_ADDR
      [] b = "ccm" -> CCM_SRAM_START_ADDR

BankMargin(b) ==
    CASE b = "flash" -> FlashMargin
      [] b = "sram1" -> Sram1Margin
      [] b = "sram2" -> Sram2Margin
      [] b = "ccm" -> CcmMargin

(***************************************************************************)
(* memory_test_configuration.c                                             *)
(***************************************************************************)
InitializeDefaultConfig ==
    [ flashTestSize |-> \H8000,
      sram1TestSize |-> \H4000,
      sram2TestSize |-> \H2000,
      ccmTestSize |-> \H2000,
      flashTestOffset |-> \H20000,
      sram1TestOffset |-> \H2000,
      sram2TestOffset |-> \H400,
      ccmTestOffset |-> \H400,
      addressTestStride |-> 256,
      numButterflyPairs |-> 16,
      reportIntervalMs |-> 1000,
      advancedTestInterval |-> 10,
      rotateStartingOffsets |-> 1,
      rotateTestSizes |-> 1 ]

\* Base plus offset; every offset the rotation produces is below 2^20, so the
\* uint32_t sum never wraps.
GetFlashTestStart(cfg) == FLASH_START_ADDR + cfg.flashTestOffset
GetSRAM1TestStart(cfg) == SRAM1_START_ADDR + cfg.sram1TestOffset
GetSRAM2TestStart(cfg) == SRAM2_START_ADDR + cfg.sram2TestOffset
GetCCMTestStart(cfg) == CCM_SRAM_START_ADDR + cfg.ccmTestOffset

\* A faulty variant of TestSizes: the large SRAM2 window and its margin fill the
\* bank.
TestSizes_LargeFillsBank(tier) ==
    CASE tier = 0 -> [flash |-> \H8000, sram1 |-> \H4000, sram2 |-> \H2000, ccm |-> \H2000]
      [] tier = 1 -> [flash |-> \H10000, sram1 |-> \H8000, sram2 |-> \H4000, ccm |-> \H4000]
      [] tier = 2 -> [flash |-> \H20000, sram1 |-> \H10000, sram2 |-> \H7C00, ccm |-> \H6000]

\* The three size sets of the switch in RotateTestParameters.
TestSizes(tier) ==
    CASE tier = 0 -> [flash |-> \H8000, sram1 |-> \H4000, sram2 |-> \H2000, ccm |-> \H2000]
      [] tier = 1 -> [flash |-> \H10000, sram1 |-> \H8000, sram2 |-> \H4000, ccm |-> \H4000]
      [] tier = 2 -> [flash |-> \H20000, sram1 |-> \H10000, sram2 |-> \H6000, ccm |-> \H6000]

\* A faulty variant of RotateOffset: the window size is left out of maxOffset.
RotateOffset_WithoutSize(offset, stride, bankSize, testSize, margin) ==
    (offset + stride) % (bankSize - margin)

\* maxOffset = bankSize - testSize - margin and (offset + stride) % maxOffset, in
\* uint32_t arithmetic. When testSize + margin exceeds bankSize the difference
\* wraps to 2^32 - d, which is larger than offset + stride, so the remainder is
\* offset + stride itself. A zero divisor is undefined in C: the Cortex-M4 UDIV
\* either yields quotient 0, and the remainder computed from it is offset + stride,
\* or raises a UsageFault (DividesByZero below), depending on SCB->CCR.DIV_0_TRP.
RotateOffset(offset, stride, bankSize, testSize, margin) ==
    LET maxOffset == bankSize - testSize - margin
    IN  IF maxOffset > 0 THEN (offset + stride) % maxOffset
        ELSE offset + stride

SnapToMargin(offset, margin) == IF offset < margin THEN margin ELSE offset

\* A faulty variant of RotateOffsets: the rotateStartingOffsets switch is not tested.
RotateOffsets_IgnoresSwitch(cfg) ==
    [cfg EXCEPT
        !.flashTestOffset =
            RotateOffset(@, FlashStride, FLASH_SIZE, cfg.flashTestSize, FlashMargin),
        !.sram1TestOffset =
            SnapToMargin(RotateOffset(@, Sram1Stride, SRAM1_SIZE, cfg.sram1TestSize,
                                      Sram1Margin), Sram1Margin),
        !.sram2TestOffset =
            SnapToMargin(RotateOffset(@, Sram2Stride, SRAM2_SIZE, cfg.sram2TestSize,
                                      Sram2Margin), Sram2Margin),
        !.ccmTestOffset =
            SnapToMargin(RotateOffset(@, CcmStride, CCM_SRAM_SIZE, cfg.ccmTestSize,
                                      CcmMargin), CcmMargin)]

\* The offset half of RotateTestParameters: runs first, with the sizes the
\* configuration holds on entry. The Flash offset is not snapped to a margin.
RotateOffsets(cfg) ==
    IF cfg.rotateStartingOffsets # 0
    THEN [cfg EXCEPT
            !.flashTestOffset =
                RotateOffset(@, FlashStride, FLASH_SIZE, cfg.flashTestSize, FlashMargin),
            !.sram1TestOffset =
                SnapToMargin(RotateOffset(@, Sram1Stride, SRAM1_SIZE, cfg.sram1TestSize,
                                          Sram1Margin), Sram1Margin),
            !.sram2TestOffset =
                SnapToMargin(RotateOffset(@, Sram2Stride, SRAM2_SIZE, cfg.sram2TestSize,
                                          Sram2Margin), Sram2Margin),
            !.ccmTestOffset =
                SnapToMargin(RotateOffset(@, CcmStride, CCM_SRAM_SIZE, cfg.ccmTestSize,
                                          CcmMargin), CcmMargin)]
    ELSE cfg

\* A faulty variant of RotateSizes: the rotateTestSizes switch is not tested.
RotateSizes_IgnoresSwitch(cfg, cycleCounter) ==
    IF cycleCounter % 5 = 0
    THEN LET s == TestSizes((cycleCounter \div 5) % 3)
         IN  [cfg EXCEPT !.flashTestSize = s.flash,
                         !.sram1TestSize = s.sram1,
                         !.sram2TestSize = s.sram2,
                         !.ccmTestSize = s.ccm]
    ELSE cfg

\* The size half of RotateTestParameters: runs second.
RotateSizes(cfg, cycleCounter) ==
    IF cfg.rotateTestSizes # 0 /\ cycleCounter % 5 = 0
    THEN LET s == TestSizes((cycleCounter \div 5) % 3)
         IN  [cfg EXCEPT !.flashTestSize = s.flash,
                         !.sram1TestSize = s.sram1,
                         !.sram2TestSize = s.sram2,
                         !.ccmTestSize = s.ccm]
    ELSE cfg

RotateTestParameters(cfg, cycleCounter) == RotateSizes(RotateOffsets(cfg), cycleCounter)

\* The offset half of RotateTestParameters divides by a zero maxOffset.
DividesByZero(cfg) ==
    /\ cfg.rotateStartingOffsets # 0
    /\ \/ FLASH_SIZE - cfg.flashTestSize - FlashMargin = 0
       \/ SRAM1_SIZE - cfg.sram1TestSize - Sram1Margin = 0
       \/ SRAM2_SIZE - cfg.sram2TestSize - Sram2Margin = 0
       \/ CCM_SRAM_SIZE - cfg.ccmTestSize - CcmMargin = 0

TestSize(cfg, b) ==
    CASE b = "flash" -> cfg.flashTestSize
      [] b = "sram1" -> cfg.sram1TestSize
      [] b = "sram2" -> cfg.sram2TestSize
      [] b = "ccm" -> cfg.ccmTestSize

TestOffset(cfg, b) ==
    CASE b = "flash" -> cfg.flashTestOffset
      [] b = "sram1" -> cfg.sram1TestOffset
      [] b = "sram2" -> cfg.sram2TestOffset
      [] b = "ccm" -> cfg.ccmTestOffset

TestStart(cfg, b) ==
    CASE b = "flash" -> GetFlashTestStart(cfg)
      [] b = "sram1" -> GetSRAM1TestStart(cfg)
      [] b = "sram2" -> GetSRAM2TestStart(cfg)
      [] b = "ccm" -> GetCCMTestStart(cfg)

(***************************************************************************)
(* main.c: UpdateTestOperation and the statement lists of the test         *)
(* functions.                                                              *)
(***************************************************************************)
FlashOperations ==
    { "Flash Address Test", "Flash Butterfly Test", "Flash Checkerboard Test 0xAA55AA55",
      "Flash Checkerboard Test 0x55AA55AA", "Flash Cache Test" }

Sram1Operations ==
    { "SRAM1 Address Test", "SRAM1 Butterfly Test", "SRAM1 Checkerboard Test 0xAA55AA55",
      "SRAM1 Checkerboard Test 0x55AA55AA", "SRAM1 Checkerboard Test",
      "SRAM1 March C Test" }

Sram2Operations ==
    { "SRAM2 Address Test", "SRAM2 Butterfly Test", "SRAM2 Checkerboard Test 0xAA55AA55",
      "SRAM2 Checkerboard Test 0x55AA55AA", "SRAM2 Checkerboard Test",
      "SRAM2 Walking Test" }

CcmOperations ==
    { "CCM SRAM Address Test", "CCM SRAM Butterfly Test",
      "CCM SRAM Checkerboard Test 0xAA55AA55", "CCM SRAM Checkerboard Test 0x55AA55AA",
      "CCM SRAM Checkerboard Test", "CCM SRAM Modified Checkerboard" }

Operations == FlashOperations \cup Sram1Operations \cup Sram2Operations \cup CcmOperations

\* The leading characters (ASCII codes) of an operation string: "Flash ", "SRAM1 ",
\* "SRAM2 ", "CCM SR". UpdateTestOperation reads at most the first four, and every
\* string is longer than that.
OperationChars(operation) ==
    CASE operation \in FlashOperations -> << 70, 108, 97, 115, 104, 32 >>
      [] operation \in Sram1Operations -> << 83, 82, 65, 77, 49, 32 >>
      [] operation \in Sram2Operations -> << 83, 82, 65, 77, 50, 32 >>
      [] operation \in CcmOperations -> << 67, 67, 77, 32, 83, 82 >>

\* for (i = 0; i < 4 && operation[i] != '\0'; i++)
\*     operationCode = (operationCode << 8) | operation[i];
\* The code stays below 2^31 for ASCII strings, so the shift loses no bit and the
\* OR with a byte is an addition.
RECURSIVE OperationCodeLoop(_, _, _)
OperationCodeLoop(chars, i, operationCode) ==
    IF i < 4 /\ i < Len(chars)
    THEN OperationCodeLoop(chars, i + 1, operationCode * 256 + chars[i + 1])
    ELSE operationCode

OperationCode(operation) == OperationCodeLoop(OperationChars(operation), 0, 0)

\* One statement of a test function: an UpdateTestOperation call, a test
\* primitive call with its arguments, the GetECCErrorCount block, or a
\* HAL_IWDG_Refresh call.
Op(operation) == [k |-> "op", a |-> operation, b |-> "", start |-> 0, size |-> 0]
Test(prim, bank, start, size) ==
    [k |-> "test", a |-> prim, b |-> bank, start |-> start, size |-> size]
EccSync == [k |-> "eccSync", a |-> "", b |-> "", start |-> 0, size |-> 0]
Iwdg == [k |-> "iwdg", a |-> "", b |-> "", start |-> 0, size |-> 0]

CacheTestAddr == FLASH_START_ADDR + \H20000

\* No RunCacheTest call in progress: the flash is locked.
CacheIdle == [locked |-> TRUE, errors |-> 0, steps |-> << >>]

\* A faulty variant of AdvancedTestsDue: the schedule is one cycle late.
AdvancedTestsDue_OneLate(cycle, interval) == cycle % interval = 1

\* if (testCycleCounter % interval == 0): the schedule of the advanced tests.
AdvancedTestsDue(cycle, interval) == cycle % interval = 0

TestAllMemoryRegions(cfg, cycle) ==
    LET flashTestStart == GetFlashTestStart(cfg)
        sram1TestStart == GetSRAM1TestStart(cfg)
        sram2TestStart == GetSRAM2TestStart(cfg)
        ccmTestStart == GetCCMTestStart(cfg)
    IN  << Op("Flash Address Test"),
           Test("address", "flash", flashTestStart, cfg.flashTestSize),
           Op("Flash Butterfly Test"),
           Test("butterfly", "flash", flashTestStart, cfg.flashTestSize),
           Op("Flash Checkerboard Test 0xAA55AA55"),
           Test("checkerboard1", "flash", flashTestStart, cfg.flashTestSize),
           Op("Flash Checkerboard Test 0x55AA55AA"),
           Test("checkerboard2", "flash", flashTestStart, cfg.flashTestSize),
           Op("SRAM1 Address Test"),
           Test("address", "sram1", sram1TestStart, cfg.sram1TestSize),
           Op("SRAM1 Butterfly Test"),
           Test("butterfly", "sram1", sram1TestStart, cfg.sram1TestSize),
           Op("SRAM1 Checkerboard Test 0xAA55AA55"),
           Test("checkerboard1", "sram1", sram1TestStart, cfg.sram1TestSize),
           Op("SRAM1 Checkerboard Test 0x55AA55AA"),
           Test("checkerboard2", "sram1", sram1TestStart, cfg.sram1TestSize),
           Op("SRAM2 Address Test"),
           Test("address", "sram2", sram2TestStart, cfg.sram2TestSize),
           Op("SRAM2 Butterfly Test"),
           Test("butterfly", "sram2", sram2TestStart, cfg.sram2TestSize),
           Op("SRAM2 Checkerboard Test 0xAA55AA55"),
           Test("checkerboard1", "sram2", sram2TestStart, cfg.sram2TestSize),
           Op("SRAM2 Checkerboard Test 0x55AA55AA"),
           Test("checkerboard2", "sram2", sram2TestStart, cfg.sram2TestSize),
           Op("CCM SRAM Address Test"),
           Test("address", "ccm", ccmTestStart, cfg.ccmTestSize),
           Op("CCM SRAM Butterfly Test"),
           Test("butterfly", "ccm", ccmTestStart, cfg.ccmTestSize),
           Op("CCM SRAM Checkerboard Test 0xAA55AA55"),
           Test("checkerboard1", "ccm", ccmTestStart, cfg.ccmTestSize),
           Op("CCM SRAM Checkerboard Test 0x55AA55AA"),
           Test("checkerboard2", "ccm", ccmTestStart, cfg.ccmTestSize),
           Op("Flash Cache Test"),
           Test("cache", "cache", CacheTestAddr, 8),
           EccSync >>
        \o (IF AdvancedTestsDue(cycle, cfg.advancedTestInterval)
            THEN << Op("SRAM1 March C Test"),
                    Test("marchC", "sram1", sram1TestStart, cfg.sram1TestSize \div 8),
                    Op("SRAM2 Walking Test"),
                    Test("walkingOnes", "sram2", sram2TestStart, cfg.sram2TestSize \div 8),
                    Test("walkingZeros", "sram2", sram2TestStart, cfg.sram2TestSize \div 8) >>
            ELSE << >>)
        \o << Iwdg >>

\* A faulty variant of TestSRAMOnly: SRAM-only mode runs the normal-mode function.
TestSRAMOnly_AsNormalMode(cfg, cycle) == TestAllMemoryRegions(cfg, cycle)

TestSRAMOnly(cfg, cycle) ==
    LET sram1TestStart == GetSRAM1TestStart(cfg)
        sram2TestStart == GetSRAM2TestStart(cfg)
        ccmTestStart == GetCCMTestStart(cfg)
    IN  << Op("SRAM1 Address Test"),
           Test("address", "sram1", sram1TestStart, cfg.sram1TestSize),
           Op("SRAM1 Butterfly Test"),
           Test("butterfly", "sram1", sram1TestStart, cfg.sram1TestSize),
           Op("SRAM1 Checkerboard Test"),
           Test("checkerboard1", "sram1", sram1TestStart, cfg.sram1TestSize),
           Op("SRAM2 Address Test"),
           Test("address", "sram2", sram2TestStart, cfg.sram2TestSize),
           Op("SRAM2 Butterfly Test"),
           Test("butterfly", "sram2", sram2TestStart, cfg.sram2TestSize),
           Op("SRAM2 Checkerboard Test"),
           Test("checkerboard1", "sram2", sram2TestStart, cfg.sram2TestSize),
           Op("CCM SRAM Address Test"),
           Test("address", "ccm", ccmTestStart, cfg.ccmTestSize),
           Op("CCM SRAM Butterfly Test"),
           Test("butterfly", "ccm", ccmTestStart, cfg.ccmTestSize),
           Op("CCM SRAM Checkerboard Test"),
           Test("checkerboard1", "ccm", ccmTestStart, cfg.ccmTestSize) >>
        \o (IF AdvancedTestsDue(cycle, cfg.advancedTestInterval \div 2)
            THEN << Op("SRAM1 March C Test"),
                    Test("marchC", "sram1", sram1TestStart, cfg.sram1TestSize \div 4),
                    Op("SRAM2 Walking Test"),
                    Test("walkingOnes", "sram2", sram2TestStart, cfg.sram2TestSize \div 4),
                    Test("walkingZeros", "sram2", sram2TestStart, cfg.sram2TestSize \div 4),
                    Op("CCM SRAM Modified Checkerboard"),
                    Test("modifiedCheckerboard", "ccm", ccmTestStart,
                         cfg.ccmTestSize \div 4) >>
            ELSE << >>)
        \o << Iwdg >>

TestFlashOnly(cfg, cycle) ==
    LET flashTestStart == GetFlashTestStart(cfg)
    IN  << Op("Flash Address Test"),
           Test("address", "flash", flashTestStart, cfg.flashTestSize),
           Op("Flash Butterfly Test"),
           Test("butterfly", "flash", flashTestStart, cfg.flashTestSize),
           Op("Flash Checkerboard Test 0xAA55AA55"),
           Test("checkerboard1", "flash", flashTestStart, cfg.flashTestSize),
           Op("Flash Checkerboard Test 0x55AA55AA"),
           Test("checkerboard2", "flash", flashTestStart, cfg.flashTestSize),
           EccSync,
           Iwdg >>

\* for (int i = 0; i < 5; i++) { ... }
TestCacheOnlyIteration ==
    << Op("Flash Cache Test"), Test("cache", "cache", CacheTestAddr, 8), EccSync, Iwdg >>

TestCacheOnly(cfg, cycle) ==
    TestCacheOnlyIteration \o TestCacheOnlyIteration \o TestCacheOnlyIteration
        \o TestCacheOnlyIteration \o TestCacheOnlyIteration

\* A faulty variant of TestFunction: the statements of the test function run in
\* the opposite order.
TestFunction_Reversed(mode, cfg, cycle) ==
    LET statements ==
            CASE mode = STRESS_TEST_CYCLE -> TestAllMemoryRegions(cfg, cycle)
              [] mode = SRAM_ONLY_CYCLE -> TestSRAMOnly(cfg, cycle)
              [] mode = FLASH_ONLY_CYCLE -> TestFlashOnly(cfg, cycle)
              [] mode = CACHE_ONLY_CYCLE -> TestCacheOnly(cfg, cycle)
              [] OTHER -> TestAllMemoryRegions(cfg, cycle)
    IN  [i \in 1..Len(statements) |-> statements[Len(statements) + 1 - i]]

\* The switch of MainTestCycle.
TestFunction(mode, cfg, cycle) ==
    CASE mode = STRESS_TEST_CYCLE -> TestAllMemoryRegions(cfg, cycle)
      [] mode = SRAM_ONLY_CYCLE -> TestSRAMOnly(cfg, cycle)
      [] mode = FLASH_ONLY_CYCLE -> TestFlashOnly(cfg, cycle)
      [] mode = CACHE_ONLY_CYCLE -> TestCacheOnly(cfg, cycle)
      [] OTHER -> TestAllMemoryRegions(cfg, cycle)

(***************************************************************************)
(* watchdog_handler.c                                                      *)
(***************************************************************************)
\* The value of every field of a MemoryTestStatus after memset(.., 0, ..).
ZeroStatus ==
    [ addressTestSuccess |-> 0, addressTestTotal |-> 0,
      dataTestSuccess |-> 0, dataTestTotal |-> 0,
      marchCTestSuccess |-> 0, marchCTestTotal |-> 0,
      galpatTestSuccess |-> 0, galpatTestTotal |-> 0,
      walkingTestSuccess |-> 0, walkingTestTotal |-> 0,
      eccErrorCount |-> 0, transactionFailCount |-> 0, totalErrors |-> 0 ]

StatusNames == {"flash", "sram1", "sram2", "ccm", "cache"}

NoMessage == [m |-> "none"]

\* A faulty variant of SaveTestState: the error code is not written.
SaveTestState_NoErrorCode(b, operationCode, errorCode, cycle) ==
    [b EXCEPT ![RTC_BKP_DR0] = operationCode,
              ![RTC_BKP_DR1] = cycle]

\* A faulty variant of SaveTestState: all four registers are written.
SaveTestState_WritesCounter(b, operationCode, errorCode, cycle) ==
    [b EXCEPT ![RTC_BKP_DR0] = operationCode,
              ![RTC_BKP_DR1] = cycle,
              ![RTC_BKP_DR2] = errorCode,
              ![RTC_BKP_DR3] = 0]

\* SaveTestState(operationCode, errorCode): the three backup register writes.
SaveTestState(b, operationCode, errorCode, cycle) ==
    [b EXCEPT ![RTC_BKP_DR0] = operationCode,
              ![RTC_BKP_DR1] = cycle,
              ![RTC_BKP_DR2] = errorCode]

\* SaveTestState: the immediate report when errorCode != ERROR_NONE.
SaveTestStateReport(u, operationCode, errorCode, cycle) ==
    IF errorCode # ERROR_NONE
    THEN [m |-> "error", code |-> errorCode, operation |-> operationCode, cycle |-> cycle]
    ELSE u

\* A faulty variant of CheckForReset: the pin flag, which an IWDG reset may set
\* as well, is tested first.
CheckForReset_PinFirst(resetCause, b) ==
    IF "PINRSTF" \in resetCause
    THEN [ bkp |-> [b EXCEPT ![RTC_BKP_DR0] = 0, ![RTC_BKP_DR1] = 0, ![RTC_BKP_DR2] = 0],
           uart |-> [m |-> "pinReset"] ]
    ELSE IF "IWDGRSTF" \in resetCause
    THEN LET resetCount == b[RTC_BKP_DR3] + 1
         IN  [ bkp |-> [b EXCEPT ![RTC_BKP_DR3] = resetCount],
               uart |-> [ m |-> "watchdogReset",
                          resetCount |-> resetCount,
                          lastCycle |-> b[RTC_BKP_DR1],
                          lastOperation |-> b[RTC_BKP_DR0],
                          lastError |-> b[RTC_BKP_DR2] ] ]
    ELSE [ bkp |-> b, uart |-> [m |-> "otherReset", csr |-> resetCause] ]

\* A faulty variant of CheckForReset: a clean start clears all four registers.
CheckForReset_ClearsCounter(resetCause, b) ==
    IF "IWDGRSTF" \in resetCause
    THEN LET resetCount == b[RTC_BKP_DR3] + 1
         IN  [ bkp |-> [b EXCEPT ![RTC_BKP_DR3] = resetCount],
               uart |-> [ m |-> "watchdogReset",
                          resetCount |-> resetCount,
                          lastCycle |-> b[RTC_BKP_DR1],
                          lastOperation |-> b[RTC_BKP_DR0],
                          lastError |-> b[RTC_BKP_DR2] ] ]
    ELSE IF "PINRSTF" \in resetCause
    THEN [ bkp |-> [i \in 0..3 |-> 0], uart |-> [m |-> "pinReset"] ]
    ELSE [ bkp |-> b, uart |-> [m |-> "otherReset", csr |-> resetCause] ]

\* A faulty variant of CheckForReset: reading DR0, DR1 and DR2 clears them.
CheckForReset_ReadClears(resetCause, b) ==
    IF "IWDGRSTF" \in resetCause
    THEN LET resetCount == b[RTC_BKP_DR3] + 1
         IN  [ bkp |-> [i \in 0..3 |-> IF i = RTC_BKP_DR3 THEN resetCount ELSE 0],
               uart |-> [ m |-> "watchdogReset",
                          resetCount |-> resetCount,
                          lastCycle |-> b[RTC_BKP_DR1],
                          lastOperation |-> b[RTC_BKP_DR0],
                          lastError |-> b[RTC_BKP_DR2] ] ]
    ELSE IF "PINRSTF" \in resetCause
    THEN [ bkp |-> [b EXCEPT ![RTC_BKP_DR0] = 0, ![RTC_BKP_DR1] = 0, ![RTC_BKP_DR2] = 0],
           uart |-> [m |-> "pinReset"] ]
    ELSE [ bkp |-> b, uart |-> [m |-> "otherReset", csr |-> resetCause] ]

\* A faulty variant of CheckForReset: every boot that is not a watchdog boot
\* clears the record.
CheckForReset_OtherClears(resetCause, b) ==
    IF "IWDGRSTF" \in resetCause
    THEN LET resetCount == b[RTC_BKP_DR3] + 1
         IN  [ bkp |-> [b EXCEPT ![RTC_BKP_DR3] = resetCount],
               uart |-> [ m |-> "watchdogReset",
                          resetCount |-> resetCount,
                          lastCycle |-> b[RTC_BKP_DR1],
                          lastOperation |-> b[RTC_BKP_DR0],
                          lastError |-> b[RTC_BKP_DR2] ] ]
    ELSE [ bkp |-> [b EXCEPT ![RTC_BKP_DR0] = 0, ![RTC_BKP_DR1] = 0, ![RTC_BKP_DR2] = 0],
           uart |-> IF "PINRSTF" \in resetCause THEN [m |-> "pinReset"]
                    ELSE [m |-> "otherReset", csr |-> resetCause] ]

\* CheckForReset, given RCC->CSR and the backup registers: the registers and the
\* report it leaves. The reset counter is a uint32_t; it stays far below 2^32 here.
CheckForReset(resetCause, b) ==
    IF "IWDGRSTF" \in resetCause
    THEN LET resetCount == b[RTC_BKP_DR3] + 1
         IN  [ bkp |-> [b EXCEPT ![RTC_BKP_DR3] = resetCount],
               uart |-> [ m |-> "watchdogReset",
                          resetCount |-> resetCount,
                          lastCycle |-> b[RTC_BKP_DR1],
                          lastOperation |-> b[RTC_BKP_DR0],
                          lastError |-> b[RTC_BKP_DR2] ] ]
    ELSE IF "PINRSTF" \in resetCause
    THEN [ bkp |-> [b EXCEPT ![RTC_BKP_DR0] = 0, ![RTC_BKP_DR1] = 0, ![RTC_BKP_DR2] = 0],
           uart |-> [m |-> "pinReset"] ]
    ELSE [ bkp |-> b, uart |-> [m |-> "otherReset", csr |-> resetCause] ]

\* ConfigureWatchdog: starts the IWDG and calls CheckForReset, which clears the
\* reset flags. HAL_IWDG_Init is taken to succeed.
ConfigureWatchdog ==
    /\ pc = "boot"
    /\ LET r == CheckForReset(csr, bkp)
       IN  /\ bkp' = r.bkp
           /\ uartLast' = r.uart
    /\ csr' = {}
    /\ pc' = "eccInit"
    /\ UNCHANGED << todo, errors, testCycleCounter, currentTestMode, currentTestOperation,
                    testConfig, status, eccErrorsDetected, flashSR, trace,
                    mismatchesLeft, eccLeft, crashesLeft , cycleLimit, history, memory, cacheRun >>

(***************************************************************************)
(* ecc_handler.c                                                           *)
(***************************************************************************)
ConfigureECCDetection ==
    /\ pc = "eccInit"
    /\ eccErrorsDetected' = 0
    /\ pc' = "init"
    /\ UNCHANGED << todo, errors, csr, bkp, testCycleCounter, currentTestMode,
                    currentTestOperation, testConfig, status, flashSR, uartLast, trace,
                    mismatchesLeft, eccLeft, crashesLeft , cycleLimit, history, memory, cacheRun >>

EccFlags == {"ECCC", "ECCD"}
OtherFlashFlags ==
    {"OPERR", "PROGERR", "WRPERR", "PGAERR", "SIZERR", "PGSERR", "MISERR", "FASTERR"}

\* The flag sets a flash error event raises in the model.
FlashEvents == { {"ECCC"}, {"ECCD"}, {"ECCC", "ECCD"}, {"OPERR"}, {"ECCC", "PROGERR"} }

InTestLoop ==
    pc \in {"idle", "cycle", "addressRead", "saveDR0", "saveDR1", "saveDR2"}

\* The flash controller raises error flags and requests the FLASH interrupt.
FlashErrorEvent ==
    /\ InTestLoop
    /\ flashSR = {}
    /\ eccLeft > 0
    /\ \E flags \in FlashEvents : flashSR' = flags
    /\ eccLeft' = eccLeft - 1
    /\ UNCHANGED << pc, todo, errors, csr, bkp, testCycleCounter, currentTestMode,
                    currentTestOperation, testConfig, status, eccErrorsDetected,
                    uartLast, trace, mismatchesLeft, crashesLeft , cycleLimit, history, memory, cacheRun >>

\* A faulty variant of EccIncrements: the two flags are tested with if / else if.
EccIncrements_ElseIf(flags) == IF flags \cap {"ECCC", "ECCD"} # {} THEN 1 ELSE 0

\* The number of eccErrorsDetected++ the handler performs.
EccIncrements(flags) ==
    (IF "ECCC" \in flags THEN 1 ELSE 0) + (IF "ECCD" \in flags THEN 1 ELSE 0)

\* FLASH_IRQHandler, given the pending flags: the backup registers it leaves.
FlashIrqBkp(flags, b, cycle) ==
    IF flags \cap EccFlags # {}
    THEN SaveTestState(b, 0, ERROR_ECC_DETECTED, cycle)
    ELSE b

\* FLASH_IRQHandler: the flags still pending on return (each test clears its flag).
FlashIrqFlagsLeft(flags) == flags \ (EccFlags \cup OtherFlashFlags)

\* FLASH_IRQHandler runs to completion and returns to the interrupted code.
FLASH_IRQHandler ==
    /\ InTestLoop
    /\ flashSR # {}
    /\ eccErrorsDetected' = eccErrorsDetected + EccIncrements(flashSR)
    /\ bkp' = FlashIrqBkp(flashSR, bkp, testCycleCounter)
    /\ flashSR' = FlashIrqFlagsLeft(flashSR)
    /\ uartLast' = [m |-> "flashError"]
    /\ UNCHANGED << pc, todo, errors, csr, testCycleCounter, currentTestMode,
                    currentTestOperation, testConfig, status, trace,
                    mismatchesLeft, eccLeft, crashesLeft , cycleLimit, history, memory, cacheRun >>

(***************************************************************************)
(* main.c: the test loop                                                   *)
(***************************************************************************)
\* The main context is about to run a statement of this kind of its test function.
AtStatement(kind) ==
    /\ pc = "cycle"
    /\ flashSR = {}
    /\ todo # << >>
    /\ Head(todo).k = kind

Event(e, a, b) == [e |-> e, a |-> a, b |-> b]

InitializeTests ==
    /\ pc = "init"
    /\ status' = [n \in StatusNames |-> ZeroStatus]
    /\ testConfig' = InitializeDefaultConfig
    /\ testCycleCounter' = 0
    /\ currentTestMode' = NORMAL_TEST_CYCLE
    /\ uartLast' = [m |-> "config"]
    /\ pc' = "idle"
    /\ UNCHANGED << todo, errors, csr, bkp, currentTestOperation, eccErrorsDetected,
                    flashSR, trace, mismatchesLeft, eccLeft, crashesLeft, cycleLimit, history, memory, cacheRun >>

\* The values of currentTestMode: the five defined modes and one value that is
\* none of them.
TestModes ==
    { NORMAL_TEST_CYCLE, STRESS_TEST_CYCLE, SRAM_ONLY_CYCLE, FLASH_ONLY_CYCLE,
      CACHE_ONLY_CYCLE, 7 }

\* The console selects a test mode before the first cycle.
SetTestMode ==
    /\ pc = "idle"
    /\ testCycleCounter = 0
    /\ currentTestMode = NORMAL_TEST_CYCLE
    /\ flashSR = {}
    /\ \E mode \in TestModes \ {NORMAL_TEST_CYCLE} : currentTestMode' = mode
    /\ UNCHANGED << pc, todo, errors, csr, bkp, testCycleCounter, currentTestOperation,
                    testConfig, status, eccErrorsDetected, flashSR, uartLast, trace,
                    mismatchesLeft, eccLeft, crashesLeft, cycleLimit, history, memory, cacheRun >>

\* What MainTestCycle does before the switch, after counting the cycle: rotate,
\* and report the configuration every 20 cycles.
CycleHead(cycle) ==
    << Event("rotate", "", "") >>
        \o (IF cycle % 20 = 0 THEN << Event("configReport", "", "") >> ELSE << >>)

\* MainTestCycle up to the switch, and the entry into the test function of the
\* mode, which reads its start addresses. The cycle counter is a uint32_t; it
\* stays far below 2^32 here.
MainTestCycleBegin ==
    /\ pc = "idle"
    /\ flashSR = {}
    /\ testCycleCounter < cycleLimit
    /\ testCycleCounter' = testCycleCounter + 1
    /\ testConfig' = RotateTestParameters(testConfig, testCycleCounter')
    /\ uartLast' = IF testCycleCounter' % 20 = 0 THEN [m |-> "config"] ELSE uartLast
    /\ trace' = CycleHead(testCycleCounter')
    /\ pc' = "cycle"
    /\ todo' = TestFunction(currentTestMode, testConfig', testCycleCounter')
    /\ errors' = 0
    /\ UNCHANGED << csr, bkp, currentTestMode, currentTestOperation, status,
                    eccErrorsDetected, flashSR, mismatchesLeft, eccLeft, crashesLeft,
                    cycleLimit, history, memory, cacheRun >>

\* UpdateTestOperation(operation): copy the string, pack its first four
\* characters into the operation code, SaveTestState(operationCode, 0).
UpdateTestOperation ==
    /\ AtStatement("op")
    /\ LET operation == Head(todo).a
       IN  /\ currentTestOperation' = operation
           /\ bkp' = SaveTestState(bkp, OperationCode(operation), 0, testCycleCounter)
           /\ uartLast' = SaveTestStateReport(uartLast, OperationCode(operation), 0,
                                              testCycleCounter)
           /\ trace' = Append(trace, Event("op", operation, ""))
    /\ todo' = Tail(todo)
    /\ UNCHANGED << pc, errors, csr, testCycleCounter, currentTestMode, testConfig,
                    status, eccErrorsDetected, flashSR, mismatchesLeft, eccLeft,
                    crashesLeft, cycleLimit, history, memory, cacheRun >>

\* The error counts a test primitive returns in the model.
ErrorCounts == {0, 1, 2}

\* What one RunCacheTest run meets.
CacheOutcomes ==
    {"ok", "eraseFail", "programFail", "cachedMismatch", "directMismatch", "bothMismatch"}

\* The local errors of RunCacheTest.
CacheErrors(outcome) ==
    CASE outcome = "cachedMismatch" -> 1
      [] outcome = "directMismatch" -> 1
      [] outcome = "bothMismatch" -> 2
      [] OTHER -> 0

\* RunCacheTest(&cacheStatus) on a status structure.
CacheTally(st, outcome) ==
    [st EXCEPT !.dataTestTotal = @ + 1,
               !.transactionFailCount =
                   IF outcome \in {"eraseFail", "programFail"} THEN @ + 1 ELSE @,
               !.dataTestSuccess = IF CacheErrors(outcome) = 0 THEN @ + 1 ELSE @]

\* A faulty variant of Tally: the error count of the run is stored in totalErrors,
\* not added to it.
Tally_ErrorsAssigned(st, totalField, successField, e) ==
    [st EXCEPT ![totalField] = @ + 1,
               ![successField] = IF e = 0 THEN @ + 1 ELSE @,
               !.totalErrors = e]

\* xTotal++; if (errors == 0) xSuccess++; else totalErrors += errors;
\* and for RunCheckerboardTest: status->dataTestTotal++ and dataTestSuccess++ in
\* the primitive, if (errors > 0) totalErrors += errors in the caller.
Tally(st, totalField, successField, e) ==
    [st EXCEPT ![totalField] = @ + 1,
               ![successField] = IF e = 0 THEN @ + 1 ELSE @,
               !.totalErrors = @ + e]

\* The value of the caller's local `errors` after the call: the walking zeros
\* count is added to the walking ones count, RunCacheTest returns nothing.
ErrorsAfter(prim, before, e) ==
    CASE prim = "walkingZeros" -> before + e
      [] prim = "cache" -> before
      [] OTHER -> e

\* The status structures after the call of a primitive and the counting that
\* follows it in the caller.
StatusAfter(st, prim, bank, before, e, outcome) ==
    CASE prim \in {"address", "butterfly"} ->
            [st EXCEPT ![bank] = Tally(@, "addressTestTotal", "addressTestSuccess", e)]
      [] prim \in {"checkerboard1", "checkerboard2", "modifiedCheckerboard"} ->
            [st EXCEPT ![bank] = Tally(@, "dataTestTotal", "dataTestSuccess", e)]
      [] prim = "marchC" ->
            [st EXCEPT ![bank] = Tally(@, "marchCTestTotal", "marchCTestSuccess", e)]
      [] prim = "walkingOnes" -> st
      [] prim = "walkingZeros" ->
            [st EXCEPT ![bank] =
                Tally(@, "walkingTestTotal", "walkingTestSuccess", before + e)]
      [] prim = "cache" -> [st EXCEPT ![bank] = CacheTally(@, outcome)]

\* A faulty variant of RunTest: the test function returns at the first test
\* that reports an error.
RunTest_ReturnOnError ==
    /\ AtStatement("test")
    /\ LET prim == Head(todo).a
           bank == Head(todo).b
       IN  \E e \in ErrorCounts, outcome \in CacheOutcomes :
              /\ IF prim = "cache" THEN e = 0 ELSE outcome = "ok"
              /\ (e > 0 \/ outcome # "ok") => mismatchesLeft > 0
              /\ mismatchesLeft' =
                    IF e > 0 \/ outcome # "ok" THEN mismatchesLeft - 1 ELSE mismatchesLeft
              /\ status' = StatusAfter(status, prim, bank, errors, e, outcome)
              /\ errors' = ErrorsAfter(prim, errors, e)
              /\ trace' = Append(trace, Event("test", prim, bank))
              /\ todo' = IF e > 0 THEN << >> ELSE Tail(todo)
    /\ UNCHANGED << pc, csr, bkp, testCycleCounter, currentTestMode,
                    currentTestOperation, testConfig, eccErrorsDetected, flashSR,
                    uartLast, eccLeft, crashesLeft, cycleLimit, history, memory, cacheRun >>

\* One test primitive runs to its end and the caller counts its result. A run
\* that reports anything but sound memory uses up one of the model's mismatches.
RunTest ==
    /\ AtStatement("test")
    /\ LET prim == Head(todo).a
           bank == Head(todo).b
       IN  \E e \in ErrorCounts, outcome \in CacheOutcomes :
              /\ IF prim = "cache" THEN e = 0 ELSE outcome = "ok"
              /\ (e > 0 \/ outcome # "ok") => mismatchesLeft > 0
              /\ mismatchesLeft' =
                    IF e > 0 \/ outcome # "ok" THEN mismatchesLeft - 1 ELSE mismatchesLeft
              /\ status' = StatusAfter(status, prim, bank, errors, e, outcome)
              /\ errors' = ErrorsAfter(prim, errors, e)
              /\ trace' = Append(trace, Event("test", prim, bank))
    /\ todo' = Tail(todo)
    /\ UNCHANGED << pc, csr, bkp, testCycleCounter, currentTestMode,
                    currentTestOperation, testConfig, eccErrorsDetected, flashSR,
                    uartLast, eccLeft, crashesLeft, cycleLimit, history, memory, cacheRun >>

\* eccErrors = GetECCErrorCount(); if (eccErrors > flashStatus.eccErrorCount) ...
SyncEccErrorCount ==
    /\ AtStatement("eccSync")
    /\ status' = [status EXCEPT !["flash"].eccErrorCount =
                      IF eccErrorsDetected > @ THEN eccErrorsDetected ELSE @]
    /\ trace' = Append(trace, Event("eccSync", "", ""))
    /\ todo' = Tail(todo)
    /\ UNCHANGED << pc, errors, csr, bkp, testCycleCounter, currentTestMode,
                    currentTestOperation, testConfig, eccErrorsDetected, flashSR,
                    uartLast, mismatchesLeft, eccLeft, crashesLeft, cycleLimit, history, memory, cacheRun >>

\* HAL_IWDG_Refresh(&hiwdg) inside a test function.
RefreshWatchdog ==
    /\ AtStatement("iwdg")
    /\ trace' = Append(trace, Event("iwdg", "", ""))
    /\ todo' = Tail(todo)
    /\ UNCHANGED << pc, errors, csr, bkp, testCycleCounter, currentTestMode,
                    currentTestOperation, testConfig, status, eccErrorsDetected, flashSR,
                    uartLast, mismatchesLeft, eccLeft, crashesLeft, cycleLimit, history, memory, cacheRun >>

\* A faulty variant of CycleTail: the watchdog is fed before the report.
CycleTail_ReportLast(due) ==
    << Event("iwdg", "", "") >>
        \o (IF due THEN << Event("statusReport", "", "") >> ELSE << >>)

\* What the tail of MainTestCycle does: the status report when its interval has
\* elapsed (the tick count is the environment's), then HAL_IWDG_Refresh.
CycleTail(due) ==
    (IF due THEN << Event("statusReport", "", "") >> ELSE << >>)
        \o << Event("iwdg", "", "") >>

\* MainTestCycle after the switch.
MainTestCycleEnd ==
    /\ pc = "cycle"
    /\ flashSR = {}
    /\ todo = << >>
    /\ \E due \in BOOLEAN :
          /\ uartLast' = IF due THEN [m |-> "status"] ELSE uartLast
          /\ trace' = trace \o CycleTail(due)
    /\ pc' = "idle"
    /\ UNCHANGED << todo, errors, csr, bkp, testCycleCounter, currentTestMode,
                    currentTestOperation, testConfig, status, eccErrorsDetected, flashSR,
                    mismatchesLeft, eccLeft, crashesLeft, cycleLimit, history, memory, cacheRun >>

(***************************************************************************)
(* watchdog_handler.c: the fault handlers. Each saves the operation code   *)
(* it reads back from DR0 with its own error code, reports, and spins in   *)
(* while(1) {} until the watchdog resets the device. A trap fires during a *)
(* memory access of a test primitive.                                      *)
(***************************************************************************)
\* A faulty variant of FaultHandler: the operation code saved is 0, as in the
\* flash interrupt handler.
FaultHandler_ClearsTag(errorCode, name) ==
    /\ AtStatement("test")
    /\ crashesLeft > 0
    /\ crashesLeft' = crashesLeft - 1
    /\ bkp' = SaveTestState(bkp, 0, errorCode, testCycleCounter)
    /\ uartLast' = [m |-> name]
    /\ pc' = "halt"
    /\ UNCHANGED << todo, errors, csr, testCycleCounter, currentTestMode,
                    currentTestOperation, testConfig, status, eccErrorsDetected, flashSR,
                    trace, mismatchesLeft, eccLeft, cycleLimit, history, memory, cacheRun >>

FaultHandler(errorCode, name) ==
    /\ AtStatement("test")
    /\ crashesLeft > 0
    /\ crashesLeft' = crashesLeft - 1
    /\ bkp' = SaveTestState(bkp, bkp[RTC_BKP_DR0], errorCode, testCycleCounter)
    /\ uartLast' = [m |-> name]
    /\ pc' = "halt"
    /\ UNCHANGED << todo, errors, csr, testCycleCounter, currentTestMode,
                    currentTestOperation, testConfig, status, eccErrorsDetected, flashSR,
                    trace, mismatchesLeft, eccLeft, cycleLimit, history, memory, cacheRun >>

HardFault_Handler == FaultHandler(ERROR_HARDFAULT, "HARDFAULT")
BusFault_Handler == FaultHandler(ERROR_BUSFAULT, "BUSFAULT")
MemManage_Handler == FaultHandler(ERROR_MEMMANAGE, "MEMMANAGE")
UsageFault_Handler == FaultHandler(ERROR_USAGEFAULT, "USAGEFAULT")

(***************************************************************************)
(* The device                                                              *)
(***************************************************************************)
\* The independent watchdog expires: a halted fault handler never refreshes it, and
\* a test primitive that hangs does not either. RAM and peripherals start afresh;
\* the backup registers keep their contents.
WatchdogReset ==
    /\ \/ pc = "halt" /\ UNCHANGED crashesLeft
       \/ AtStatement("test") /\ crashesLeft > 0 /\ crashesLeft' = crashesLeft - 1
    /\ \E also \in SUBSET {"PINRSTF"} : csr' = {"IWDGRSTF"} \cup also
    /\ pc' = "boot"
    /\ todo' = << >>
    /\ errors' = 0
    /\ testCycleCounter' = 0
    /\ currentTestMode' = NORMAL_TEST_CYCLE
    /\ currentTestOperation' = ""
    /\ testConfig' = InitializeDefaultConfig
    /\ status' = [n \in StatusNames |-> ZeroStatus]
    /\ eccErrorsDetected' = 0
    /\ flashSR' = {}
    /\ uartLast' = NoMessage
    /\ trace' = << >>
    /\ cacheRun' = CacheIdle
    /\ UNCHANGED << bkp, mismatchesLeft, eccLeft, cycleLimit, history, memory >>

\* RCC->CSR at the first boot the model looks at.
InitialResetFlags ==
    { {"PINRSTF"}, {"PINRSTF", "BORRSTF"}, {"SFTRSTF"}, {"IWDGRSTF", "PINRSTF"},
      {"IWDGRSTF"} }

\* What the backup registers may hold at that boot, left there by earlier sessions.
InitialRecords ==
    { [i \in 0..3 |-> CASE i = RTC_BKP_DR0 -> op [] i = RTC_BKP_DR1 -> cyc
                        [] i = RTC_BKP_DR2 -> err [] OTHER -> cnt] :
        op \in {0, \H41}, cyc \in {0, 37}, err \in {ERROR_NONE, ERROR_ECC_DETECTED},
        cnt \in {0, 1} }

InitDevice ==
    /\ pc = "boot"
    /\ todo = << >>
    /\ errors = 0
    /\ csr \in InitialResetFlags
    /\ bkp \in InitialRecords
    /\ testCycleCounter = 0
    /\ currentTestMode = NORMAL_TEST_CYCLE
    /\ currentTestOperation = ""
    /\ testConfig = InitializeDefaultConfig
    /\ status = [n \in StatusNames |-> ZeroStatus]
    /\ eccErrorsDetected = 0
    /\ flashSR = {}
    /\ uartLast = NoMessage
    /\ trace = << >>
    /\ history = << >>
    /\ memory = << >>
    /\ cacheRun = CacheIdle

Boot == ConfigureWatchdog \/ ConfigureECCDetection \/ InitializeTests \/ SetTestMode

Cycle ==
    \/ MainTestCycleBegin
    \/ UpdateTestOperation
    \/ RunTest
    \/ SyncEccErrorCount
    \/ RefreshWatchdog
    \/ MainTestCycleEnd

Fault == HardFault_Handler \/ BusFault_Handler \/ MemManage_Handler \/ UsageFault_Handler

\* The device with flash error interrupts, fault traps and watchdog resets; every
\* test primitive finds the memory sound.
Init ==
    /\ InitDevice
    /\ mismatchesLeft = 0
    /\ eccLeft = MaxEccEvents
    /\ crashesLeft = MaxCrashes
    /\ cycleLimit = MaxCrashCycles

Next == Boot \/ Cycle \/ FlashErrorEvent \/ FLASH_IRQHandler \/ Fault \/ WatchdogReset

Spec == Init /\ [][Next]_vars

\* The test loop alone, from a first power-on with an empty record, on memory
\* whose tests may report mismatches.
InitSched ==
    /\ InitDevice
    /\ csr = {"PINRSTF", "BORRSTF"}
    /\ bkp = [i \in 0..3 |-> 0]
    /\ mismatchesLeft = MaxMismatches
    /\ eccLeft = 0
    /\ crashesLeft = 0
    /\ cycleLimit = MaxCycle

NextSched == Boot \/ Cycle

SpecSched == InitSched /\ [][NextSched]_vars

\* The device as in Spec; the watchdog, once it is no longer fed, resets the
\* device, and the boot code then runs CheckForReset.
\* It is followed from a first power-on with an empty record.
InitLive ==
    /\ Init
    /\ csr = {"PINRSTF", "BORRSTF"}
    /\ bkp = [i \in 0..3 |-> 0]

LiveSpec ==
    InitLive /\ [][Next]_vars /\ WF_vars(WatchdogReset) /\ WF_vars(ConfigureWatchdog)

\* The test loop with flash error interrupts and no fault: the main context and
\* the interrupt handler keep running.
InitEcc ==
    /\ InitDevice
    /\ mismatchesLeft = 0
    /\ eccLeft = MaxEccEvents
    /\ crashesLeft = 0
    /\ cycleLimit = MaxCrashCycles

NextEcc == Boot \/ Cycle \/ FlashErrorEvent \/ FLASH_IRQHandler

SpecEcc ==
    InitEcc /\ [][NextEcc]_vars /\ WF_vars(Boot \/ Cycle) /\ WF_vars(FLASH_IRQHandler)

(***************************************************************************)
(* RotateTestParameters called cycle after cycle, as MainTestCycle calls   *)
(* it, on the configurations the console can leave in testConfig.          *)
(***************************************************************************)
\* One call RotateTestParameters(++testCycleCounter) that returns.
RotateStep ==
    /\ pc = "rotate"
    /\ testCycleCounter < cycleLimit
    /\ testCycleCounter' = testCycleCounter + 1
    /\ testConfig' = RotateTestParameters(testConfig, testCycleCounter')
    /\ history' = Append(history, testConfig')
    /\ UNCHANGED << pc, todo, errors, csr, bkp, currentTestMode, currentTestOperation,
                    status, eccErrorsDetected, flashSR, uartLast, trace, mismatchesLeft,
                    eccLeft, crashesLeft, cycleLimit, memory, cacheRun >>

\* One call whose division by zero traps: UsageFault_Handler saves its code and
\* halts.
RotateTrap ==
    /\ pc = "rotate"
    /\ testCycleCounter < cycleLimit
    /\ DividesByZero(testConfig)
    /\ testCycleCounter' = testCycleCounter + 1
    /\ bkp' = SaveTestState(bkp, bkp[RTC_BKP_DR0], ERROR_USAGEFAULT, testCycleCounter')
    /\ uartLast' = [m |-> "USAGEFAULT"]
    /\ pc' = "halt"
    /\ UNCHANGED << todo, errors, csr, currentTestMode, currentTestOperation, testConfig,
                    status, eccErrorsDetected, flashSR, trace, mismatchesLeft, eccLeft,
                    crashesLeft, cycleLimit, history, memory, cacheRun >>

\* The SRAM2 window sizes a rotation run starts with: the default, one that leaves
\* a usable range of zero and one that leaves none.
ConfiguredSram2Sizes == {\H2000, \H7C00, \H8000}

\* The configurations a rotation run starts with: the default offsets, each
\* rotation switched on or off.
RotationConfigs ==
    { [InitializeDefaultConfig EXCEPT !.rotateStartingOffsets = ro,
                                      !.rotateTestSizes = rs,
                                      !.sram2TestSize = size] :
        ro \in {0, 1}, rs \in {0, 1}, size \in ConfiguredSram2Sizes }

InitRotate ==
    /\ pc = "rotate"
    /\ todo = << >>
    /\ errors = 0
    /\ csr = {}
    /\ bkp = [i \in 0..3 |-> 0]
    /\ testCycleCounter = 0
    /\ currentTestMode = NORMAL_TEST_CYCLE
    /\ currentTestOperation = ""
    /\ testConfig \in RotationConfigs
    /\ status = [n \in StatusNames |-> ZeroStatus]
    /\ eccErrorsDetected = 0
    /\ flashSR = {}
    /\ uartLast = NoMessage
    /\ trace = << >>
    /\ mismatchesLeft = 0
    /\ eccLeft = 0
    /\ crashesLeft = 0
    /\ cycleLimit = MaxRotations
    /\ history = << testConfig >>
    /\ memory = << >>
    /\ cacheRun = CacheIdle

NextRotate == RotateStep \/ RotateTrap

SpecRotate == InitRotate /\ [][NextRotate]_vars

(***************************************************************************)
(* address_tests.c: 32-bit words. A uint32_t whose whole range matters is  *)
(* kept as its two 16-bit halves << high, low >>; every product below is    *)
(* split so that no intermediate value reaches 2^31.                       *)
(***************************************************************************)
ToWord(n) == << n \div \H10000, n % \H10000 >>

\* The bitwise exclusive or of two n-bit values.
RECURSIVE XorBits(_, _, _)
XorBits(a, b, n) ==
    IF n = 0 THEN 0
    ELSE (((a % 2) + (b % 2)) % 2) + 2 * XorBits(a \div 2, b \div 2, n - 1)

\* v ^ w
Xor32(v, w) == << XorBits(v[1], w[1], 16), XorBits(v[2], w[2], 16) >>

\* ~v
Not32(v) == << \HFFFF - v[1], \HFFFF - v[2] >>

\* The low and the high 16 bits of the product of two 16-bit values.
MulLow16(x, y) == ((x * (y % 256)) + ((x * (y \div 256)) % 256) * 256) % \H10000
MulHigh16(x, y) ==
    (((x * (y % 256)) + ((x * (y \div 256)) % 256) * 256) \div \H10000)
        + ((x * (y \div 256)) \div 256)

\* v * w in uint32_t arithmetic, that is modulo 2^32.
Mul32(v, w) ==
    << (MulHigh16(v[2], w[2]) + MulLow16(v[1], w[2]) + MulLow16(v[2], w[1])) % \H10000,
       MulLow16(v[2], w[2]) >>

\* A faulty variant of GenerateAddressPattern: the multiplier is even.
GenerateAddressPattern_EvenMultiplier(address, cycle) ==
    Xor32(Xor32(address, Mul32(cycle, << \H1234, \H567A >>)), << \HF00F, \H0FF0 >>)

\* A faulty variant of GenerateAddressPattern: the two low address bits are
\* masked off before the address is mixed in.
GenerateAddressPattern_WordAddress(address, cycle) ==
    Xor32(Xor32(<< address[1], address[2] - (address[2] % 4) >>,
                Mul32(cycle, << \H1234, \H567B >>)), << \HF00F, \H0FF0 >>)

\* return address ^ (testCycleCounter * 0x1234567B) ^ 0xF00F0FF0;
GenerateAddressPattern(address, cycle) ==
    Xor32(Xor32(address, Mul32(cycle, << \H1234, \H567B >>)), << \HF00F, \H0FF0 >>)

(***************************************************************************)
(* The memory under test, byte by byte: a 32-bit store writes four bytes,  *)
(* low byte first, and a load reads them back.                             *)
(***************************************************************************)
WordBytes(w) == << w[2] % 256, w[2] \div 256, w[1] % 256, w[1] \div 256 >>

\* *(uint32_t*)addr = w
WriteWord(mem, addr, w) ==
    (addr :> WordBytes(w)[1] @@ (addr + 1) :> WordBytes(w)[2]
        @@ (addr + 2) :> WordBytes(w)[3] @@ (addr + 3) :> WordBytes(w)[4]) @@ mem

\* *(uint32_t*)addr
ReadWord(mem, addr) ==
    << mem[addr + 2] + 256 * mem[addr + 3], mem[addr] + 256 * mem[addr + 1] >>

\* The offsets the loops of RunAddressTest visit:
\* for (offset = 0; offset < size; offset += stride)
AddressTestOffsets(size, stride) == { k * stride : k \in 0..((size - 1) \div stride) }

\* The offset of the last store of the write phase that covers the byte at
\* startAddr + d: the loop runs upwards, so it is the highest visited offset
\* that is not above d.
LastStoreBelow(d, size, stride) ==
    IF d < size THEN (d \div stride) * stride ELSE ((size - 1) \div stride) * stride

\* RunAddressTest, write phase: the memory after
\* for (...) *addr = GenerateAddressPattern(addr);
AddressTestWrite(mem, startAddr, size, stride, cycle) ==
    LET stored == UNION { (startAddr + offset)..(startAddr + offset + 3) :
                            offset \in AddressTestOffsets(size, stride) }
        bytes == [offset \in AddressTestOffsets(size, stride) |->
                     WordBytes(GenerateAddressPattern(ToWord(startAddr + offset), cycle))]
    IN  [a \in stored |->
            LET offset == LastStoreBelow(a - startAddr, size, stride)
            IN  bytes[offset][a - startAddr - offset + 1]] @@ mem

\* A faulty variant of AddressTestRead: the read phase computes its expected
\* values from a cycle counter that is no longer the one of the write phase.
AddressTestRead_OtherCycle(mem, startAddr, size, stride, cycle) ==
    Cardinality({ offset \in AddressTestOffsets(size, stride) :
                    ReadWord(mem, startAddr + offset)
                        # GenerateAddressPattern(ToWord(startAddr + offset),
                                                 Xor32(cycle, << 0, 1 >>)) })

\* RunAddressTest, read phase: the number of visited words that differ from
\* their pattern.
AddressTestRead(mem, startAddr, size, stride, cycle) ==
    Cardinality({ offset \in AddressTestOffsets(size, stride) :
                    ReadWord(mem, startAddr + offset)
                        # GenerateAddressPattern(ToWord(startAddr + offset), cycle) })

\* w % m for a uint32_t w and 0 < m <= 2^19.
WordMod(w, m) == ((((((w[1] % m) * 256) % m) * 256) % m) + w[2]) % m

\* if (addr < startAddr || addr >= startAddr + size) addr = startAddr + (addr % size);
MapIntoWindow(addr, startAddr, size) ==
    IF addr < startAddr \/ addr >= startAddr + size
    THEN startAddr + (addr % size)
    ELSE addr

\* 1 << n
RECURSIVE ShiftLeft(_)
ShiftLeft(n) == IF n = 0 THEN 1 ELSE 2 * ShiftLeft(n - 1)

\* RunEnhancedButterflyTest: pairs[i][0] and pairs[i][1] as the two loops that
\* fill the array leave them; i < numPairs is a spread pair, the others are the
\* power-of-two pairs. numPairs is the count after the clip to 32.
ButterflyPair(i, startAddr, size, totalSize, numPairs, cycle) ==
    LET baseAddr == startAddr - (startAddr % totalSize)
        rotationOffset == WordMod(Mul32(cycle, << 0, 19 >>), totalSize)
        bit == IF ShiftLeft(i - numPairs + 2) >= totalSize
               THEN totalSize \div 2 ELSE ShiftLeft(i - numPairs + 2)
        pos1 == IF i < numPairs
                THEN (rotationOffset + (i * (totalSize \div numPairs))) % totalSize
                ELSE rotationOffset % totalSize
        pos2 == IF i < numPairs
                THEN (rotationOffset + ((i * (totalSize \div numPairs))
                                            + (totalSize \div 2))) % totalSize
                ELSE (rotationOffset + bit) % totalSize
    IN  << MapIntoWindow(baseAddr + pos1, startAddr, size),
           MapIntoWindow(baseAddr + pos2, startAddr, size) >>

\* numPairs after the clip to 32, and after the power-of-two pairs are added.
ClippedPairs(numPairs) == IF numPairs > 32 THEN 32 ELSE numPairs
TestedPairs(numPairs) ==
    IF ClippedPairs(numPairs) + 5 <= 32 THEN ClippedPairs(numPairs) + 5 ELSE 32

\* A faulty variant of ButterflyPattern2: the same polarity as the first pattern.
ButterflyPattern2_SamePolarity(i, cycle) ==
    Xor32(Xor32(<< \HAAAA, \HAAAA >>, Mul32(ToWord(i), << \H1111, \H1111 >>)), cycle)

\* pattern1 = 0xAAAAAAAA ^ (i * 0x11111111) ^ testCycleCounter
ButterflyPattern1(i, cycle) ==
    Xor32(Xor32(<< \HAAAA, \HAAAA >>, Mul32(ToWord(i), << \H1111, \H1111 >>)), cycle)

\* pattern2 = 0x55555555 ^ (i * 0x11111111) ^ testCycleCounter
ButterflyPattern2(i, cycle) ==
    Xor32(Xor32(<< \H5555, \H5555 >>, Mul32(ToWord(i), << \H1111, \H1111 >>)), cycle)

Mismatch(mem, addr, w) == IF ReadWord(mem, addr) # w THEN 1 ELSE 0

\* pairs[0 .. numPairs - 1] as the test loop finds them.
ButterflyPairs(startAddr, size, totalSize, numPairs, cycle) ==
    [i \in 0..(TestedPairs(numPairs) - 1) |->
        ButterflyPair(i, startAddr, size, totalSize, ClippedPairs(numPairs), cycle)]

\* One iteration of the test loop: the errors it counts. It loads only from the
\* eight bytes it has just stored to, so the count does not depend on what the
\* memory held before.
PairErrors(i, pair, cycle) ==
    LET pattern1 == ButterflyPattern1(i, cycle)
        pattern2 == ButterflyPattern2(i, cycle)
        written == WriteWord(WriteWord(<< >>, pair[1], pattern1), pair[2], pattern2)
        swapped == WriteWord(WriteWord(written, pair[1], pattern2), pair[2], pattern1)
    IN  Mismatch(written, pair[1], pattern1) + Mismatch(written, pair[2], pattern2)
            + Mismatch(swapped, pair[1], pattern2) + Mismatch(swapped, pair[2], pattern1)

\* f[0] + ... + f[n]
RECURSIVE SumUpTo(_, _)
SumUpTo(f, n) == IF n < 0 THEN 0 ELSE f[n] + SumUpTo(f, n - 1)

\* The return value of RunEnhancedButterflyTest.
ButterflyErrors(startAddr, size, totalSize, numPairs, cycle) ==
    LET pairs == ButterflyPairs(startAddr, size, totalSize, numPairs, cycle)
        counted == [i \in DOMAIN pairs |-> PairErrors(i, pairs[i], cycle)]
    IN  SumUpTo(counted, TestedPairs(numPairs) - 1)

\* The memory RunEnhancedButterflyTest leaves: each byte it stored to holds what
\* the last store to it wrote, which is a store of the swapped patterns of the
\* highest pair that covers the byte, and within that pair the store to
\* pairs[i][1] (pattern1) if it covers the byte, else the one to pairs[i][0].
ButterflyMemory(mem, startAddr, size, totalSize, numPairs, cycle) ==
    LET pairs == ButterflyPairs(startAddr, size, totalSize, numPairs, cycle)
        covers(i, a) == a \in pairs[i][1]..(pairs[i][1] + 3)
                            \/ a \in pairs[i][2]..(pairs[i][2] + 3)
        stored == UNION { (pairs[i][1]..(pairs[i][1] + 3)) \cup (pairs[i][2]..(pairs[i][2] + 3)) :
                            i \in DOMAIN pairs }
        last(a) == CHOOSE i \in DOMAIN pairs :
                       covers(i, a) /\ \A j \in DOMAIN pairs : covers(j, a) => j <= i
    IN  [a \in stored |->
            LET i == last(a)
            IN  IF a \in pairs[i][2]..(pairs[i][2] + 3)
                THEN WordBytes(ButterflyPattern1(i, cycle))[a - pairs[i][2] + 1]
                ELSE WordBytes(ButterflyPattern2(i, cycle))[a - pairs[i][1] + 1]] @@ mem

(***************************************************************************)
(* The address test and the butterfly test of one RAM bank, run on the     *)
(* byte memory, with the flash interrupt able to come in between. The      *)
(* cycle counter is a 32-bit word here.                                    *)
(***************************************************************************)
\* RunAddressTest up to the end of its write phase. A faulty memory keeps the
\* complement of the word stored at the first location.
AddressTestWritePhase ==
    /\ AtStatement("test")
    /\ Head(todo).a = "address"
    /\ LET startAddr == Head(todo).start
           written == AddressTestWrite(memory, startAddr, Head(todo).size,
                                       testConfig.addressTestStride, testCycleCounter)
       IN  \E faulty \in BOOLEAN :
              /\ faulty => mismatchesLeft > 0
              /\ mismatchesLeft' = IF faulty THEN mismatchesLeft - 1 ELSE mismatchesLeft
              /\ memory' = IF faulty
                           THEN WriteWord(written, startAddr,
                                          Not32(ReadWord(written, startAddr)))
                           ELSE written
    /\ pc' = "addressRead"
    /\ UNCHANGED << todo, errors, csr, bkp, testCycleCounter, currentTestMode,
                    currentTestOperation, testConfig, status, eccErrorsDetected, flashSR,
                    uartLast, trace, eccLeft, crashesLeft, cycleLimit, history,
                    cacheRun >>

\* The read phase of RunAddressTest, its return, and the counting in the caller.
AddressTestReadPhase ==
    /\ pc = "addressRead"
    /\ flashSR = {}
    /\ LET e == AddressTestRead(memory, Head(todo).start, Head(todo).size,
                                testConfig.addressTestStride, testCycleCounter)
       IN  /\ errors' = e
           /\ status' = StatusAfter(status, "address", Head(todo).b, errors, e, "ok")
    /\ trace' = Append(trace, Event("test", "address", Head(todo).b))
    /\ todo' = Tail(todo)
    /\ pc' = "cycle"
    /\ UNCHANGED << csr, bkp, testCycleCounter, currentTestMode, currentTestOperation,
                    testConfig, eccErrorsDetected, flashSR, uartLast, mismatchesLeft,
                    eccLeft, crashesLeft, cycleLimit, history, memory, cacheRun >>

\* RunEnhancedButterflyTest, its return, and the counting in the caller.
RunEnhancedButterflyTest ==
    /\ AtStatement("test")
    /\ Head(todo).a = "butterfly"
    /\ LET e == ButterflyErrors(Head(todo).start, Head(todo).size,
                                BankSize(Head(todo).b), testConfig.numButterflyPairs,
                                testCycleCounter)
       IN  /\ errors' = e
           /\ status' = StatusAfter(status, "butterfly", Head(todo).b, errors, e, "ok")
    /\ memory' = ButterflyMemory(memory, Head(todo).start, Head(todo).size,
                                 BankSize(Head(todo).b), testConfig.numButterflyPairs,
                                 testCycleCounter)
    /\ trace' = Append(trace, Event("test", "butterfly", Head(todo).b))
    /\ todo' = Tail(todo)
    /\ UNCHANGED << pc, csr, bkp, testCycleCounter, currentTestMode, currentTestOperation,
                    testConfig, eccErrorsDetected, flashSR, uartLast, mismatchesLeft,
                    eccLeft, crashesLeft, cycleLimit, history,
                    cacheRun >>

\* The values of the cycle counter the model looks at, as 16-bit halves: the
\* first cycles, the carries into the high half and into bit 31, and the last
\* values before the counter wraps.
PatternCycles ==
    { << 0, 0 >>, << 0, 1 >>, << 0, 2 >>, << 0, 3 >>, << 0, \HFFFF >>, << 1, 0 >>,
      << \H7FFF, \HFFFF >>, << \H8000, 0 >>, << \H8000, 1 >>,
      << \HFFFF, \HFFFE >>, << \HFFFF, \HFFFF >> }

RamBanks == {"sram1", "sram2", "ccm"}

\* The address test and the butterfly test of a bank, with their
\* UpdateTestOperation calls, as TestSRAMOnly runs them.
AddressTestStatements(cfg, b) ==
    LET first == CASE b = "sram1" -> 1 [] b = "sram2" -> 7 [] b = "ccm" -> 13
    IN  SubSeq(TestSRAMOnly(cfg, 1), first, first + 3)

InitPattern ==
    /\ pc = "cycle"
    /\ \E b \in RamBanks : todo = AddressTestStatements(InitializeDefaultConfig, b)
    /\ errors = 0
    /\ csr = {}
    /\ bkp = [i \in 0..3 |-> 0]
    /\ testCycleCounter \in PatternCycles
    /\ currentTestMode = SRAM_ONLY_CYCLE
    /\ currentTestOperation = ""
    /\ testConfig = InitializeDefaultConfig
    /\ status = [n \in StatusNames |-> ZeroStatus]
    /\ eccErrorsDetected = 0
    /\ flashSR = {}
    /\ uartLast = NoMessage
    /\ trace = << >>
    /\ mismatchesLeft = MaxMismatches
    /\ eccLeft = MaxEccEvents
    /\ crashesLeft = 0
    /\ cycleLimit = 0
    /\ history = << >>
    /\ memory = << >>
    /\ cacheRun = CacheIdle

NextPattern ==
    \/ UpdateTestOperation
    \/ AddressTestWritePhase
    \/ AddressTestReadPhase
    \/ RunEnhancedButterflyTest
    \/ FlashErrorEvent
    \/ FLASH_IRQHandler

SpecPattern == InitPattern /\ [][NextPattern]_vars

(***************************************************************************)
(* memory_test_framework.c: RunCacheTest, one HAL call at a time. The      *)
(* flash controller may fail an erase or a program, and the word read back *)
(* may differ from the pattern programmed.                                 *)
(***************************************************************************)
\* A faulty variant of CacheTestAfterErase: the program step follows a failed
\* erase.
CacheTestAfterErase_ProgramsAnyway(ok) == "cacheProgram"

\* if (HAL_FLASHEx_Erase(..) != HAL_OK) { .. } else { program .. }
CacheTestAfterErase(ok) == IF ok THEN "cacheProgram" ELSE "cacheLock"

\* if (HAL_FLASH_Program(..) != HAL_OK) { .. } else { read back .. }
CacheTestAfterProgram(ok) == IF ok THEN "cacheRead" ELSE "cacheLock"

\* status->transactionFailCount++ when the HAL call does not return HAL_OK.
TransactionResult(st, ok) ==
    IF ok THEN st ELSE [st EXCEPT !.transactionFailCount = @ + 1]

\* if (errors == 0) { status->dataTestSuccess++; }
CacheTestResult(st, run) ==
    IF run.errors = 0 THEN [st EXCEPT !.dataTestSuccess = @ + 1] ELSE st

\* status->dataTestTotal++, the cache is enabled, HAL_FLASH_Unlock().
RunCacheTestBegin ==
    /\ AtStatement("test")
    /\ Head(todo).a = "cache"
    /\ status' = [status EXCEPT ![Head(todo).b].dataTestTotal = @ + 1]
    /\ cacheRun' = [locked |-> FALSE, errors |-> 0, steps |-> << "unlock" >>]
    /\ pc' = "cacheErase"
    /\ UNCHANGED << todo, errors, csr, bkp, testCycleCounter, currentTestMode,
                    currentTestOperation, testConfig, eccErrorsDetected, flashSR,
                    uartLast, trace, mismatchesLeft, eccLeft, crashesLeft, cycleLimit,
                    history, memory >>

\* HAL_FLASHEx_Erase of the page of the test address.
RunCacheTestErase ==
    /\ pc = "cacheErase"
    /\ \E ok \in BOOLEAN :
          /\ ~ok => mismatchesLeft > 0
          /\ mismatchesLeft' = IF ok THEN mismatchesLeft ELSE mismatchesLeft - 1
          /\ status' = [status EXCEPT ![Head(todo).b] = TransactionResult(@, ok)]
          /\ uartLast' = IF ok THEN uartLast ELSE [m |-> "cacheEraseFailed"]
          /\ pc' = CacheTestAfterErase(ok)
    /\ cacheRun' = [cacheRun EXCEPT !.steps = Append(@, "erase")]
    /\ UNCHANGED << todo, errors, csr, bkp, testCycleCounter, currentTestMode,
                    currentTestOperation, testConfig, eccErrorsDetected, flashSR, trace,
                    eccLeft, crashesLeft, cycleLimit, history, memory >>

\* HAL_FLASH_Program of the test pattern.
RunCacheTestProgram ==
    /\ pc = "cacheProgram"
    /\ \E ok \in BOOLEAN :
          /\ ~ok => mismatchesLeft > 0
          /\ mismatchesLeft' = IF ok THEN mismatchesLeft ELSE mismatchesLeft - 1
          /\ status' = [status EXCEPT ![Head(todo).b] = TransactionResult(@, ok)]
          /\ uartLast' = IF ok THEN uartLast ELSE [m |-> "cacheProgramFailed"]
          /\ pc' = CacheTestAfterProgram(ok)
    /\ cacheRun' = [cacheRun EXCEPT !.steps = Append(@, "program")]
    /\ UNCHANGED << todo, errors, csr, bkp, testCycleCounter, currentTestMode,
                    currentTestOperation, testConfig, eccErrorsDetected, flashSR, trace,
                    eccLeft, crashesLeft, cycleLimit, history, memory >>

\* The read through the cache, the cache invalidation, the read after it.
RunCacheTestReadBack ==
    /\ pc = "cacheRead"
    /\ \E cached \in BOOLEAN, direct \in BOOLEAN :
          /\ ~(cached /\ direct) => mismatchesLeft > 0
          /\ mismatchesLeft' =
                IF cached /\ direct THEN mismatchesLeft ELSE mismatchesLeft - 1
          /\ cacheRun' = [cacheRun EXCEPT
                              !.errors = (IF cached THEN 0 ELSE 1)
                                             + (IF direct THEN 0 ELSE 1),
                              !.steps = @ \o << "cachedRead", "invalidate", "directRead" >>]
          /\ uartLast' = IF cached /\ direct THEN uartLast ELSE [m |-> "cacheReadError"]
    /\ pc' = "cacheLock"
    /\ UNCHANGED << todo, errors, csr, bkp, testCycleCounter, currentTestMode,
                    currentTestOperation, testConfig, status, eccErrorsDetected, flashSR,
                    trace, eccLeft, crashesLeft, cycleLimit, history, memory >>

\* HAL_FLASH_Lock(), the success count, and the return to the test function.
RunCacheTestEnd ==
    /\ pc = "cacheLock"
    /\ cacheRun' = [cacheRun EXCEPT !.locked = TRUE, !.steps = Append(@, "lock")]
    /\ status' = [status EXCEPT ![Head(todo).b] = CacheTestResult(@, cacheRun)]
    /\ trace' = Append(trace, Event("test", "cache", Head(todo).b))
    /\ todo' = Tail(todo)
    /\ pc' = "cycle"
    /\ UNCHANGED << errors, csr, bkp, testCycleCounter, currentTestMode,
                    currentTestOperation, testConfig, eccErrorsDetected, flashSR,
                    uartLast, mismatchesLeft, eccLeft, crashesLeft, cycleLimit, history,
                    memory >>

RunCacheTest ==
    RunCacheTestBegin \/ RunCacheTestErase \/ RunCacheTestProgram
        \/ RunCacheTestReadBack \/ RunCacheTestEnd

\* The cycles a session in cache-only mode runs.
MaxCacheCycles == 2

\* The test loop in cache-only mode, entered from the console after a first
\* power-on.
InitCache ==
    /\ pc = "idle"
    /\ todo = << >>
    /\ errors = 0
    /\ csr = {}
    /\ bkp = [i \in 0..3 |-> 0]
    /\ testCycleCounter = 0
    /\ currentTestMode = CACHE_ONLY_CYCLE
    /\ currentTestOperation = ""
    /\ testConfig = InitializeDefaultConfig
    /\ status = [n \in StatusNames |-> ZeroStatus]
    /\ eccErrorsDetected = 0
    /\ flashSR = {}
    /\ uartLast = [m |-> "config"]
    /\ trace = << >>
    /\ mismatchesLeft = MaxMismatches
    /\ eccLeft = 0
    /\ crashesLeft = 0
    /\ cycleLimit = MaxCacheCycles
    /\ history = << >>
    /\ memory = << >>
    /\ cacheRun = CacheIdle

NextCache ==
    \/ MainTestCycleBegin
    \/ UpdateTestOperation
    \/ RunCacheTest
    \/ SyncEccErrorCount
    \/ RefreshWatchdog
    \/ MainTestCycleEnd

SpecCache == InitCache /\ [][NextCache]_vars

(***************************************************************************)
(* main.c: MainTestCycle with the cycle counter at its full width, around  *)
(* the carries of the counter and its wrap at 2^32. The cycle runs the     *)
(* address test and the butterfly test of one RAM bank.                    *)
(***************************************************************************)
\* A faulty variant of Increment32: the counter stays at 0xFFFFFFFF.
Increment32_Saturates(w) ==
    IF w = << \HFFFF, \HFFFF >> THEN w
    ELSE IF w[2] = \HFFFF THEN << w[1] + 1, 0 >> ELSE << w[1], w[2] + 1 >>

\* testCycleCounter++ on a uint32_t.
Increment32(w) ==
    IF w[2] = \HFFFF THEN << (w[1] + 1) % \H10000, 0 >> ELSE << w[1], w[2] + 1 >>

\* MainTestCycle and the functions it calls use the counter only in
\* cycle % 5, (cycle / 5) % 3, cycle % 20 and cycle % advancedTestInterval with
\* the default interval of 10; the counter modulo 60 gives each of them the
\* value the counter gives.
CycleResidue(w) == WordMod(w, 60)

\* MainTestCycle up to the switch, as MainTestCycleBegin, on the full-width
\* counter.
MainTestCycleBegin32 ==
    /\ pc = "idle"
    /\ flashSR = {}
    /\ Len(history) < cycleLimit
    /\ testCycleCounter' = Increment32(testCycleCounter)
    /\ testConfig' = RotateTestParameters(testConfig, CycleResidue(testCycleCounter'))
    /\ history' = Append(history, testConfig')
    /\ uartLast' = IF CycleResidue(testCycleCounter') % 20 = 0
                   THEN [m |-> "config"] ELSE uartLast
    /\ trace' = CycleHead(CycleResidue(testCycleCounter'))
    /\ pc' = "cycle"
    /\ \E b \in RamBanks : todo' = AddressTestStatements(testConfig', b)
    /\ errors' = 0
    /\ UNCHANGED << csr, bkp, currentTestMode, currentTestOperation, status,
                    eccErrorsDetected, flashSR, mismatchesLeft, eccLeft, crashesLeft,
                    cycleLimit, memory, cacheRun >>

\* The cycles a session runs around a carry of the counter.
MaxWrapCycles == 2

\* The values the counter has before a cycle that carries into bit 16, into
\* bit 31 or out of bit 31, and two plain ones.
CounterValues ==
    { << 0, 0 >>, << 0, 58 >>, << 0, \HFFFF >>, << \H7FFF, \HFFFF >>,
      << \HFFFF, \HFFFE >>, << \HFFFF, \HFFFF >> }

InitWrap ==
    /\ pc = "idle"
    /\ todo = << >>
    /\ errors = 0
    /\ csr = {}
    /\ bkp = [i \in 0..3 |-> IF i = RTC_BKP_DR1 THEN << 0, 0 >> ELSE 0]
    /\ testCycleCounter \in CounterValues
    /\ currentTestMode = SRAM_ONLY_CYCLE
    /\ currentTestOperation = ""
    /\ testConfig = InitializeDefaultConfig
    /\ status = [n \in StatusNames |-> ZeroStatus]
    /\ eccErrorsDetected = 0
    /\ flashSR = {}
    /\ uartLast = [m |-> "config"]
    /\ trace = << >>
    /\ mismatchesLeft = 0
    /\ eccLeft = MaxEccEvents
    /\ crashesLeft = 0
    /\ cycleLimit = MaxWrapCycles
    /\ history = << >>
    /\ memory = << >>
    /\ cacheRun = CacheIdle

NextWrap ==
    \/ MainTestCycleBegin32
    \/ UpdateTestOperation
    \/ AddressTestWritePhase
    \/ AddressTestReadPhase
    \/ RunEnhancedButterflyTest
    \/ MainTestCycleEnd
    \/ FlashErrorEvent
    \/ FLASH_IRQHandler

SpecWrap == InitWrap /\ [][NextWrap]_vars

(***************************************************************************)
(* watchdog_handler.c: SaveTestState one backup register write at a time,  *)
(* as UpdateTestOperation calls it in the main context. The FLASH          *)
(* interrupt is not masked; its handler runs to completion between any two *)
(* writes, and a reset can fall between them as well.                      *)
(***************************************************************************)
\* UpdateTestOperation up to its call of SaveTestState: the string is copied and
\* the operation code, a function of the string, is packed.
UpdateTestOperationBegin ==
    /\ AtStatement("op")
    /\ currentTestOperation' = Head(todo).a
    /\ trace' = Append(trace, Event("op", Head(todo).a, ""))
    /\ pc' = "saveDR0"
    /\ UNCHANGED << todo, errors, csr, bkp, testCycleCounter, currentTestMode,
                    testConfig, status, eccErrorsDetected, flashSR, uartLast,
                    mismatchesLeft, eccLeft, crashesLeft, cycleLimit, history, memory,
                    cacheRun >>

\* HAL_RTCEx_BKUPWrite(&hrtc, RTC_BKP_DR0, operationCode)
SaveTestStateDR0 ==
    /\ pc = "saveDR0"
    /\ flashSR = {}
    /\ bkp' = [bkp EXCEPT ![RTC_BKP_DR0] = OperationCode(currentTestOperation)]
    /\ pc' = "saveDR1"
    /\ UNCHANGED << todo, errors, csr, testCycleCounter, currentTestMode,
                    currentTestOperation, testConfig, status, eccErrorsDetected, flashSR,
                    uartLast, trace, mismatchesLeft, eccLeft, crashesLeft, cycleLimit,
                    history, memory, cacheRun >>

\* HAL_RTCEx_BKUPWrite(&hrtc, RTC_BKP_DR1, testCycleCounter)
SaveTestStateDR1 ==
    /\ pc = "saveDR1"
    /\ flashSR = {}
    /\ bkp' = [bkp EXCEPT ![RTC_BKP_DR1] = testCycleCounter]
    /\ pc' = "saveDR2"
    /\ UNCHANGED << todo, errors, csr, testCycleCounter, currentTestMode,
                    currentTestOperation, testConfig, status, eccErrorsDetected, flashSR,
                    uartLast, trace, mismatchesLeft, eccLeft, crashesLeft, cycleLimit,
                    history, memory, cacheRun >>

\* HAL_RTCEx_BKUPWrite(&hrtc, RTC_BKP_DR2, errorCode) with errorCode = 0, no
\* report, and the return to the test function.
SaveTestStateDR2 ==
    /\ pc = "saveDR2"
    /\ flashSR = {}
    /\ bkp' = [bkp EXCEPT ![RTC_BKP_DR2] = ERROR_NONE]
    /\ todo' = Tail(todo)
    /\ pc' = "cycle"
    /\ UNCHANGED << errors, csr, testCycleCounter, currentTestMode,
                    currentTestOperation, testConfig, status, eccErrorsDetected, flashSR,
                    uartLast, trace, mismatchesLeft, eccLeft, crashesLeft, cycleLimit,
                    history, memory, cacheRun >>

\* The device is reset while the main context is inside SaveTestState: the
\* watchdog expires there, or the reset pin is pulled.
ResetDuringSave ==
    /\ pc \in {"saveDR1", "saveDR2"}
    /\ crashesLeft > 0
    /\ crashesLeft' = crashesLeft - 1
    /\ \E cause \in {{"IWDGRSTF"}, {"IWDGRSTF", "PINRSTF"}} : csr' = cause
    /\ pc' = "boot"
    /\ todo' = << >>
    /\ errors' = 0
    /\ testCycleCounter' = 0
    /\ currentTestMode' = NORMAL_TEST_CYCLE
    /\ currentTestOperation' = ""
    /\ testConfig' = InitializeDefaultConfig
    /\ status' = [n \in StatusNames |-> ZeroStatus]
    /\ eccErrorsDetected' = 0
    /\ flashSR' = {}
    /\ uartLast' = NoMessage
    /\ trace' = << >>
    /\ cacheRun' = CacheIdle
    /\ UNCHANGED << bkp, mismatchesLeft, eccLeft, cycleLimit, history, memory >>

InitTear ==
    /\ InitDevice
    /\ csr = {"PINRSTF", "BORRSTF"}
    /\ bkp = [i \in 0..3 |-> 0]
    /\ mismatchesLeft = 0
    /\ eccLeft = MaxEccEvents
    /\ crashesLeft = MaxCrashes
    /\ cycleLimit = MaxCrashCycles

NextTear ==
    \/ Boot
    \/ MainTestCycleBegin
    \/ UpdateTestOperationBegin
    \/ SaveTestStateDR0
    \/ SaveTestStateDR1
    \/ SaveTestStateDR2
    \/ RunTest
    \/ SyncEccErrorCount
    \/ RefreshWatchdog
    \/ MainTestCycleEnd
    \/ FlashErrorEvent
    \/ FLASH_IRQHandler
    \/ ResetDuringSave

SpecTear == InitTear /\ [][NextTear]_vars

(***************************************************************************)
(* Properties                                                              *)
(***************************************************************************)
\* MainTestCycle has returned.
CycleCompleted == pc = "idle" /\ testCycleCounter > 0

\* The events of the statements of a test function, in order.
StatementEvents(statements) ==
    [i \in 1..Len(statements) |-> Event(statements[i].k, statements[i].a, statements[i].b)]

\* The test primitives the completed cycle ran.
PrimitivesRun == { trace[i].a : i \in { j \in 1..Len(trace) : trace[j].e = "test" } }

AdvancedPrimitives == {"marchC", "walkingOnes", "walkingZeros"}

\* The error code each fault handler saves.
FaultCodes ==
    [ HARDFAULT |-> ERROR_HARDFAULT, BUSFAULT |-> ERROR_BUSFAULT,
      MEMMANAGE |-> ERROR_MEMMANAGE, USAGEFAULT |-> ERROR_USAGEFAULT ]

\* C1: after every rotation from the default configuration the window of each
\* bank satisfies offset + size + margin <= bankSize.
C1_WindowInvariant ==
    \A b \in Banks :
        TestOffset(testConfig, b) + TestSize(testConfig, b) + BankMargin(b) <= BankSize(b)

\* C2: a boot with the IWDG reset flag set adds exactly 1 to the reset counter in
\* DR3, leaves DR0, DR1 and DR2 as they were, and reports the new count with the
\* cycle, operation code and error code those registers held before the boot.
C2_WatchdogBootReport ==
    [][(pc = "boot" /\ "IWDGRSTF" \in csr) =>
          /\ bkp'[RTC_BKP_DR3] = bkp[RTC_BKP_DR3] + 1
          /\ bkp'[RTC_BKP_DR0] = bkp[RTC_BKP_DR0]
          /\ bkp'[RTC_BKP_DR1] = bkp[RTC_BKP_DR1]
          /\ bkp'[RTC_BKP_DR2] = bkp[RTC_BKP_DR2]
          /\ uartLast'.m = "watchdogReset"
          /\ uartLast'.resetCount = bkp[RTC_BKP_DR3] + 1
          /\ uartLast'.lastCycle = bkp[RTC_BKP_DR1]
          /\ uartLast'.lastOperation = bkp[RTC_BKP_DR0]
          /\ uartLast'.lastError = bkp[RTC_BKP_DR2]]_vars

\* C2: the record {op = 0x41, cycle = 37, err = 0x06} with one earlier reset has
\* been reported at a watchdog boot.
C2_Witness ==
    /\ pc = "eccInit"
    /\ uartLast.m = "watchdogReset"
    /\ uartLast.resetCount = 2
    /\ uartLast.lastCycle = 37
    /\ uartLast.lastOperation = \H41
    /\ uartLast.lastError = ERROR_ECC_DETECTED
    /\ bkp[RTC_BKP_DR0] = \H41 /\ bkp[RTC_BKP_DR1] = 37 /\ bkp[RTC_BKP_DR3] = 2

\* C3: a boot with the pin reset flag set and the IWDG flag clear leaves 0 in DR0,
\* DR1 and DR2 and does not change the reset counter in DR3.
C3_CleanBootClearsRecord ==
    [][(pc = "boot" /\ "PINRSTF" \in csr /\ "IWDGRSTF" \notin csr) =>
          /\ bkp'[RTC_BKP_DR0] = 0
          /\ bkp'[RTC_BKP_DR1] = 0
          /\ bkp'[RTC_BKP_DR2] = 0
          /\ bkp'[RTC_BKP_DR3] = bkp[RTC_BKP_DR3]]_vars

\* C3: a clean boot has cleared a record and kept a reset count of 1.
C3_Witness ==
    /\ pc = "eccInit"
    /\ uartLast.m = "pinReset"
    /\ bkp[RTC_BKP_DR0] = 0 /\ bkp[RTC_BKP_DR1] = 0 /\ bkp[RTC_BKP_DR2] = 0
    /\ bkp[RTC_BKP_DR3] = 1

\* C4: whenever a test primitive is about to start, the last thing the cycle did
\* was the SaveTestState of UpdateTestOperation for it, and DR0 holds the code of
\* the announced operation and DR1 the cycle counter.
C4_TagPersistedBeforeTest ==
    AtStatement("test") =>
        /\ trace # << >>
        /\ trace[Len(trace)].e = "op"
        /\ bkp[RTC_BKP_DR0] = OperationCode(currentTestOperation)
        /\ bkp[RTC_BKP_DR1] = testCycleCounter

\* C5: once a fault handler has fired and halted, the device eventually boots from
\* a watchdog reset and CheckForReset reports that handler's error code and the
\* operation code DR0 held when the fault fired: DR0 keeps its value from the halt
\* to the report, and the report shows it.
C5_FaultReportedAfterReset ==
    /\ [][(pc \in {"halt", "boot"}) => (bkp'[RTC_BKP_DR0] = bkp[RTC_BKP_DR0])]_vars
    /\ \A name \in DOMAIN FaultCodes :
          (pc = "halt" /\ uartLast.m = name)
              ~> (/\ pc = "eccInit"
                  /\ uartLast.m = "watchdogReset"
                  /\ uartLast.lastError = FaultCodes[name]
                  /\ uartLast.lastOperation = bkp[RTC_BKP_DR0])

\* C5: a bus fault during an SRAM test has been reported at the next boot.
C5_Witness ==
    /\ pc = "eccInit"
    /\ uartLast.m = "watchdogReset"
    /\ uartLast.lastError = ERROR_BUSFAULT
    /\ uartLast.lastOperation = OperationCode("SRAM1 Address Test")
    /\ uartLast.lastCycle = 1

\* C6 as stated: in every mode a completed cycle has run the advanced tests if and
\* only if its number is a multiple of 10.
C6_AdvancedOnMultiplesOfTen ==
    CycleCompleted =>
        IF testCycleCounter % 10 = 0
        THEN AdvancedPrimitives \subseteq PrimitivesRun
        ELSE AdvancedPrimitives \cap PrimitivesRun = {}

\* C6 amended: with advancedTestInterval = 10 a completed cycle has run the
\* advanced tests if and only if its number is a multiple of 10 in the normal,
\* stress and unrecognised modes, a multiple of 5 in SRAM-only mode, and never in
\* flash-only and cache-only mode.
C6_AdvancedSchedulePerMode ==
    CycleCompleted =>
        LET scheduled ==
                CASE currentTestMode = SRAM_ONLY_CYCLE -> testCycleCounter % 5 = 0
                  [] currentTestMode \in {FLASH_ONLY_CYCLE, CACHE_ONLY_CYCLE} -> FALSE
                  [] OTHER -> testCycleCounter % 10 = 0
        IN  /\ testConfig.advancedTestInterval = 10
            /\ IF scheduled
               THEN AdvancedPrimitives \subseteq PrimitivesRun
               ELSE AdvancedPrimitives \cap PrimitivesRun = {}

\* C6: cycle 10 in normal mode has run the advanced tests.
C6_Witness ==
    /\ CycleCompleted
    /\ testCycleCounter = 10
    /\ currentTestMode = NORMAL_TEST_CYCLE
    /\ AdvancedPrimitives \subseteq PrimitivesRun

\* C7: a fault handler writes its own error code to DR2, leaves DR0 as it was on
\* entry and halts; from the halt only a reset leads on.
C7_FaultHandlerHalts ==
    [][/\ (pc # "halt" /\ pc' = "halt") =>
             /\ uartLast'.m \in DOMAIN FaultCodes
             /\ bkp'[RTC_BKP_DR2] = FaultCodes[uartLast'.m]
             /\ bkp'[RTC_BKP_DR0] = bkp[RTC_BKP_DR0]
       /\ pc = "halt" => (pc' = "boot" /\ "IWDGRSTF" \in csr')]_vars

\* C7: the MemManage handler has halted during a CCM test with the operation code
\* still in DR0.
C7_Witness ==
    /\ pc = "halt"
    /\ uartLast.m = "MEMMANAGE"
    /\ bkp[RTC_BKP_DR2] = ERROR_MEMMANAGE
    /\ bkp[RTC_BKP_DR0] = OperationCode("CCM SRAM Butterfly Test")
    /\ currentTestOperation = "CCM SRAM Butterfly Test"

\* C8: FLASH_IRQHandler adds one to the ECC counter for each ECC flag pending,
\* saves error code 0x06, clears the flags and returns to the interrupted code,
\* and the interrupted cycle then runs to its end.
C8_EccEventNeverHalts ==
    /\ [][(InTestLoop /\ flashSR # {}) =>
             /\ eccErrorsDetected' = eccErrorsDetected + Cardinality(flashSR \cap EccFlags)
             /\ (flashSR \cap EccFlags # {} => bkp'[RTC_BKP_DR2] = ERROR_ECC_DETECTED)
             /\ flashSR' = {}
             /\ pc' = pc /\ todo' = todo /\ trace' = trace /\ errors' = errors]_vars
    /\ (pc = "cycle" /\ flashSR \cap EccFlags # {}) ~> (pc = "idle" /\ flashSR = {})

\* C8: both ECC flags were handled in the middle of cycle 1 and the cycle goes on.
C8_Witness ==
    /\ pc = "cycle"
    /\ flashSR = {}
    /\ todo # << >>
    /\ Len(trace) > 5
    /\ eccErrorsDetected = 2
    /\ bkp[RTC_BKP_DR1] = 1
    /\ bkp[RTC_BKP_DR2] = ERROR_ECC_DETECTED

\* C9: whatever error counts the test primitives return, the cycle is never stuck,
\* a primitive's result changes nothing but the status counters, and the completed
\* cycle has run every statement of its test function and ended with the watchdog
\* refresh.
C9_CycleCompletesDespiteMismatches ==
    /\ [](pc = "cycle" => ENABLED Cycle)
    /\ [](CycleCompleted =>
            \E due \in BOOLEAN :
                trace = CycleHead(testCycleCounter)
                          \o StatementEvents(TestFunction(currentTestMode, testConfig,
                                                          testCycleCounter))
                          \o CycleTail(due))
    /\ [][AtStatement("test") =>
             /\ pc' = pc /\ todo' = Tail(todo)
             /\ bkp' = bkp /\ testConfig' = testConfig
             /\ testCycleCounter' = testCycleCounter
             /\ currentTestMode' = currentTestMode]_vars

\* C9: one of the two Flash address tests of cycle 1 reported two errors and the
\* cycle completed with the tests after it run.
C9_Witness ==
    /\ CycleCompleted
    /\ testCycleCounter = 1
    /\ mismatchesLeft < MaxMismatches
    /\ status["flash"].addressTestTotal = 2
    /\ status["flash"].addressTestSuccess = 1
    /\ status["flash"].totalErrors = 2
    /\ status["ccm"].dataTestTotal = 2

\* C10: in every mode a completed cycle has fed the watchdog, and the watchdog
\* refresh is the last thing it did.
C10_WatchdogFedLast ==
    CycleCompleted =>
        /\ trace # << >>
        /\ trace[Len(trace)] = Event("iwdg", "", "")

\* C10: a cycle in an unrecognised mode has reported the status and then fed the
\* watchdog.
C10_Witness ==
    /\ CycleCompleted
    /\ currentTestMode \notin
          { NORMAL_TEST_CYCLE, STRESS_TEST_CYCLE, SRAM_ONLY_CYCLE, FLASH_ONLY_CYCLE,
            CACHE_ONLY_CYCLE }
    /\ Len(trace) > 2
    /\ trace[Len(trace) - 1] = Event("statusReport", "", "")
    /\ trace[Len(trace)] = Event("iwdg", "", "")

\* C11: the reset counter in DR3 changes only in the boot step of a watchdog
\* reset, which adds exactly 1; every other step, a boot from another reset cause
\* included, leaves it.
C11_ResetCounterCountsWatchdogBoots ==
    [][/\ (bkp'[RTC_BKP_DR3] # bkp[RTC_BKP_DR3]) => (pc = "boot" /\ "IWDGRSTF" \in csr)
       /\ (pc = "boot" /\ "IWDGRSTF" \in csr) =>
              (bkp'[RTC_BKP_DR3] = bkp[RTC_BKP_DR3] + 1)
       /\ (pc = "boot" /\ "IWDGRSTF" \notin csr) =>
              (bkp'[RTC_BKP_DR3] = bkp[RTC_BKP_DR3])]_vars

\* C11: a counter of 1 has gone through two watchdog boots, the second after a
\* hard fault in a test cycle, and stands at 3.
C11_Witness ==
    /\ pc = "eccInit"
    /\ uartLast.m = "watchdogReset"
    /\ uartLast.lastError = ERROR_HARDFAULT
    /\ uartLast.resetCount = 3
    /\ bkp[RTC_BKP_DR3] = 3

\* C12: a non-zero error code in DR2 is set back to zero by nothing but the boot
\* step of a clean start (pin reset flag set, IWDG flag clear).
C12_ErrorCodeKeptUntilCleanBoot ==
    [][(bkp[RTC_BKP_DR2] # 0 /\ bkp'[RTC_BKP_DR2] = 0) =>
          (pc = "boot" /\ "PINRSTF" \in csr /\ "IWDGRSTF" \notin csr)]_vars

\* C13: the operation code persisted in DR0 identifies the announced operation:
\* no other operation of the scheduler is persisted with the same code.
C13_TagIdentifiesOperation ==
    (pc = "cycle" /\ currentTestOperation \in Operations) =>
        \A operation \in Operations :
            OperationCode(operation) = bkp[RTC_BKP_DR0] => operation = currentTestOperation

\* The rotation run started from the default window sizes and offsets (with
\* either rotation switched on or off).
StartedFromDefaults ==
    /\ history # << >>
    /\ history[1].sram2TestSize = InitializeDefaultConfig.sram2TestSize

\* C14: from the default windows, after any number of rotations, with or without
\* size rotation, the SRAM2 and CCM offsets never exceed 0x5C00.
C14_SmallBankOffsetBounded ==
    StartedFromDefaults =>
        /\ testConfig.sram2TestOffset <= \H5C00
        /\ testConfig.ccmTestOffset <= \H5C00

\* C14: with size rotation enabled the SRAM2 offset has reached 0x5800, the
\* highest it gets, after a size change.
C14_Witness ==
    /\ StartedFromDefaults
    /\ testConfig.rotateTestSizes = 1
    /\ testCycleCounter >= 5
    /\ testConfig.sram2TestOffset = \H5800

\* The configuration before the last rotation of the run.
BeforeLastRotation == history[Len(history) - 1]

\* A rotation of the run has just returned.
Rotated == pc = "rotate" /\ Len(history) >= 2

\* C15: with offset rotation enabled, one rotation leaves in every bank the offset
\* (previous offset + stride) mod (bankSize - windowSize - margin), raised to the
\* margin when it is below it.
C15_OffsetAdvancesByStride ==
    (StartedFromDefaults /\ Rotated /\ testConfig.rotateStartingOffsets # 0) =>
        \A b \in Banks :
            LET maxOffset == BankSize(b) - TestSize(BeforeLastRotation, b) - BankMargin(b)
                advanced == (TestOffset(BeforeLastRotation, b) + BankStride(b)) % maxOffset
            IN  TestOffset(testConfig, b) =
                    IF advanced < BankMargin(b) THEN BankMargin(b) ELSE advanced

RECURSIVE GCD(_, _)
GCD(a, b) == IF b = 0 THEN a ELSE GCD(b, a % b)

Min(a, b) == IF a < b THEN a ELSE b

\* maxOffset of a bank: the usable range of its window offset.
UsableRange(cfg, b) == BankSize(b) - TestSize(cfg, b) - BankMargin(b)

\* The distinct offsets of a bank the rotations of the run have produced.
OffsetsVisited(b) == { TestOffset(history[i], b) : i \in 2..Len(history) }

\* C16: with the window sizes held fixed, N rotations have produced
\* min(N, R / gcd(s, R)) distinct offsets in every bank, R being the usable range
\* and s the stride of the bank.
C16_DistinctOffsetsVisited ==
    (StartedFromDefaults /\ Rotated /\ testConfig.rotateStartingOffsets # 0
        /\ testConfig.rotateTestSizes = 0) =>
        \A b \in Banks :
            LET R == UsableRange(testConfig, b)
            IN  Cardinality(OffsetsVisited(b)) =
                    Min(testCycleCounter, R \div GCD(BankStride(b), R))

\* The last rotation of the run was one that switches the size tier.
SizeTierSwitched ==
    Rotated /\ testConfig.rotateTestSizes # 0 /\ testCycleCounter % 5 = 0

\* C17: on a cycle that switches the size tier, the offset the rotation leaves in
\* every bank is the previous offset advanced modulo the usable range of the new
\* window size (and snapped where the bank has a snap).
C17_OffsetUsesNewSize ==
    (StartedFromDefaults /\ SizeTierSwitched /\ testConfig.rotateStartingOffsets # 0) =>
        \A b \in Banks :
            LET advanced ==
                    (TestOffset(BeforeLastRotation, b) + BankStride(b))
                        % UsableRange(testConfig, b)
            IN  TestOffset(testConfig, b) =
                    IF b = "flash" THEN advanced ELSE SnapToMargin(advanced, BankMargin(b))

\* The window sizes of a configuration: Flash, SRAM1, SRAM2, CCM.
WindowSizes(cfg) ==
    << cfg.flashTestSize, cfg.sram1TestSize, cfg.sram2TestSize, cfg.ccmTestSize >>

SmallTier == << \H8000, \H4000, \H2000, \H2000 >>
MediumTier == << \H10000, \H8000, \H4000, \H4000 >>
LargeTier == << \H20000, \H10000, \H6000, \H6000 >>

\* C18: the window sizes change only in a rotation with size rotation enabled and
\* cycle mod 5 = 0; such a rotation moves small to medium, medium to large and
\* large to small, with medium at cycle 5, large at 10 and small at 15; every other
\* rotation leaves the four sizes as they were.
C18_SizeTiersRoundRobin ==
    Rotated =>
        LET old == WindowSizes(BeforeLastRotation)
            new == WindowSizes(testConfig)
        IN  IF testConfig.rotateTestSizes # 0 /\ testCycleCounter % 5 = 0
            THEN /\ new \in {SmallTier, MediumTier, LargeTier}
                 /\ old = SmallTier => new = MediumTier
                 /\ old = MediumTier => new = LargeTier
                 /\ old = LargeTier => new = SmallTier
                 /\ testCycleCounter = 5 => new = MediumTier
                 /\ testCycleCounter = 10 => new = LargeTier
                 /\ testCycleCounter = 15 => new = SmallTier
            ELSE new = old

\* C18: rotation 15 has moved the windows from the large tier back to the small.
C18_Witness ==
    /\ Rotated
    /\ testConfig.rotateTestSizes = 1
    /\ testCycleCounter = 15
    /\ WindowSizes(BeforeLastRotation) = LargeTier
    /\ WindowSizes(testConfig) = SmallTier

\* C19: after every rotation the offset of every bank, Flash included, is at or
\* above the bank's safety margin.
C19_OffsetAboveMargin ==
    (StartedFromDefaults /\ Rotated) =>
        \A b \in Banks : TestOffset(testConfig, b) >= BankMargin(b)

\* C20: whatever window size is configured, a rotation does not trap on a zero
\* usable range, and after it every bank has a usable range above zero and a
\* window within the bank bound.
C20_WindowClampedToBank ==
    /\ pc # "halt"
    /\ (Rotated /\ testConfig.rotateStartingOffsets # 0) =>
          \A b \in Banks :
              /\ UsableRange(testConfig, b) > 0
              /\ TestOffset(testConfig, b) + TestSize(testConfig, b) + BankMargin(b)
                     <= BankSize(b)

\* C21: with offset rotation disabled a rotation leaves the offsets of all four
\* banks as they were, in every cycle and with size rotation on or off.
C21_OffsetsKeptWhenRotationDisabled ==
    (Rotated /\ testConfig.rotateStartingOffsets = 0) =>
        \A b \in Banks : TestOffset(testConfig, b) = TestOffset(BeforeLastRotation, b)

\* C21: rotation 5 with offset rotation disabled and size rotation enabled has
\* switched the sizes to the medium tier and left the default offsets in place.
C21_Witness ==
    /\ Rotated
    /\ testConfig.rotateStartingOffsets = 0
    /\ testConfig.rotateTestSizes = 1
    /\ testCycleCounter = 5
    /\ WindowSizes(testConfig) = MediumTier
    /\ \A b \in Banks :
          TestOffset(testConfig, b) = TestOffset(InitializeDefaultConfig, b)

\* C22: a boot whose reset cause is neither watchdog nor pin leaves all four
\* backup registers as they were, reports the raw cause and goes on to the next
\* initialisation step.
C22_OtherResetKeepsRecord ==
    [][(pc = "boot" /\ "IWDGRSTF" \notin csr /\ "PINRSTF" \notin csr) =>
          (/\ bkp' = bkp
           /\ uartLast' = [m |-> "otherReset", csr |-> csr]
           /\ pc' = "eccInit")]_vars

\* C22: a boot after a software reset has kept a record with a tag, a cycle, an
\* error code and a reset count.
C22_Witness ==
    /\ pc = "eccInit"
    /\ uartLast = [m |-> "otherReset", csr |-> {"SFTRSTF"}]
    /\ bkp[RTC_BKP_DR0] = \H41
    /\ bkp[RTC_BKP_DR1] = 37
    /\ bkp[RTC_BKP_DR2] = ERROR_ECC_DETECTED
    /\ bkp[RTC_BKP_DR3] = 1

\* The primitives of the scheduled block of a test function.
ScheduledPrimitives == AdvancedPrimitives \cup {"modifiedCheckerboard"}

\* The calls of scheduled primitives the running test function has still to make.
ScheduledCalls ==
    { todo[i] : i \in { j \in 1..Len(todo) :
                          todo[j].k = "test" /\ todo[j].a \in ScheduledPrimitives } }

\* C23: every advanced test is called on [windowStart, windowStart + windowSize/k)
\* of its bank's current window, k = 4 in SRAM-only mode and k = 8 otherwise; the
\* range is a proper part of the window, whatever the size tier.
C23_AdvancedTestsOnWindowFraction ==
    pc = "cycle" =>
        \A call \in ScheduledCalls :
            LET k == IF currentTestMode = SRAM_ONLY_CYCLE THEN 4 ELSE 8
                windowStart == BankBase(call.b) + TestOffset(testConfig, call.b)
                windowSize == TestSize(testConfig, call.b)
            IN  /\ call.start = windowStart
                /\ call.size = windowSize \div k
                /\ call.size < windowSize
                /\ call.start + call.size <= windowStart + windowSize

\* C23: cycle 10 in SRAM-only mode is about to run the modified checkerboard
\* test on a quarter of the large CCM window.
C23_Witness ==
    /\ AtStatement("test")
    /\ currentTestMode = SRAM_ONLY_CYCLE
    /\ testCycleCounter = 10
    /\ Head(todo).a = "modifiedCheckerboard"
    /\ Head(todo).start = CCM_SRAM_START_ADDR + testConfig.ccmTestOffset
    /\ testConfig.ccmTestSize = \H6000
    /\ Head(todo).size = \H1800

BasicPrimitives == {"address", "butterfly", "checkerboard1", "checkerboard2"}

\* The banks the current cycle has run a test on.
BanksTested ==
    { trace[i].b : i \in { j \in 1..Len(trace) : trace[j].e = "test" } } \cap Banks

\* How many times the current cycle has run a primitive on a bank.
Runs(prim, bank) ==
    Cardinality({ i \in 1..Len(trace) : trace[i] = Event("test", prim, bank) })

ReadState(b) ==
    [ operationTag |-> b[RTC_BKP_DR0], cycle |-> b[RTC_BKP_DR1],
      errorCode |-> b[RTC_BKP_DR2], resetCount |-> b[RTC_BKP_DR3] ]

\* The record a watchdog boot has read and reported.
ReportedRecord(u) ==
    [ operationTag |-> u.lastOperation, cycle |-> u.lastCycle,
      errorCode |-> u.lastError, resetCount |-> u.resetCount ]

\* C30: reading the record does not change it. A step that is neither an
\* UpdateTestOperation, nor the boot code, nor an interrupt or fault handler
\* leaves a reader the same record; and the record a watchdog boot has read
\* (after its write of the counter) is the record a second read returns.
C30_ReadingKeepsRecord ==
    [][/\ ~(AtStatement("op") \/ pc = "boot" \/ flashSR # {} \/ pc' = "halt") =>
             ReadState(bkp') = ReadState(bkp)
       /\ (pc = "boot" /\ "IWDGRSTF" \in csr) =>
             ReportedRecord(uartLast') = ReadState(bkp')]_vars

\* C30: a watchdog boot has read a record left by a hard fault, and the
\* registers still hold what it read.
C30_Witness ==
    /\ pc = "eccInit"
    /\ uartLast.m = "watchdogReset"
    /\ uartLast.lastError = ERROR_HARDFAULT
    /\ uartLast.lastOperation = OperationCode("Flash Address Test")
    /\ ReportedRecord(uartLast) = ReadState(bkp)

\* The address test in progress has finished its write phase.
AddressTestWritten == pc = "addressRead"

\* Addresses the address test in progress has written: the first two and the last.
ProbedAddresses ==
    { Head(todo).start, Head(todo).start + testConfig.addressTestStride,
      Head(todo).start + Head(todo).size - testConfig.addressTestStride }

\* C25: the pattern of an address in the current cycle differs from the pattern
\* of the same address in every other cycle.
C25_PatternVariesWithCycle ==
    AddressTestWritten =>
        \A a \in ProbedAddresses : \A c2 \in PatternCycles \ {testCycleCounter} :
            GenerateAddressPattern(ToWord(a), c2)
                # GenerateAddressPattern(ToWord(a), testCycleCounter)

\* C25: cycle 0x80000000 has written 0x500E8BF0 to the first word of the SRAM2
\* window; cycle 0 writes 0xD00E8BF0 there.
C25_Witness ==
    /\ AddressTestWritten
    /\ testCycleCounter = << \H8000, 0 >>
    /\ Head(todo).start = SRAM2_START_ADDR + \H400
    /\ mismatchesLeft = MaxMismatches
    /\ ReadWord(memory, Head(todo).start) = << \H500E, \H8BF0 >>
    /\ GenerateAddressPattern(ToWord(Head(todo).start), << 0, 0 >>) = << \HD00E, \H8BF0 >>

\* The 32-bit word with bit i set and no other.
BitWord(i) == IF i < 16 THEN << 0, ShiftLeft(i) >> ELSE << ShiftLeft(i - 16), 0 >>

\* C26: in a fixed cycle, two addresses that differ in exactly one bit have
\* different patterns.
C26_PatternVariesWithAddressBit ==
    AddressTestWritten =>
        \A a \in ProbedAddresses : \A i \in 0..31 :
            GenerateAddressPattern(Xor32(ToWord(a), BitWord(i)), testCycleCounter)
                # GenerateAddressPattern(ToWord(a), testCycleCounter)

\* C26: in cycle 3 the first word of the CCM window, 0x10000400, has pattern
\* 0xD6920881, and the address with bit 31 flipped has pattern 0x56920881.
C26_Witness ==
    /\ AddressTestWritten
    /\ testCycleCounter = << 0, 3 >>
    /\ Head(todo).start = CCM_SRAM_START_ADDR + \H400
    /\ GenerateAddressPattern(ToWord(Head(todo).start), testCycleCounter)
           = << \HD692, \H0881 >>
    /\ GenerateAddressPattern(Xor32(ToWord(Head(todo).start), BitWord(31)),
                              testCycleCounter) = << \H5692, \H0881 >>

\* The number of one bits among the low n bits of x.
RECURSIVE BitCount(_, _)
BitCount(x, n) == IF n = 0 THEN 0 ELSE (x % 2) + BitCount(x \div 2, n - 1)

\* The number of bit positions in which two 32-bit words differ.
HammingDistance(v, w) ==
    BitCount(Xor32(v, w)[1], 16) + BitCount(Xor32(v, w)[2], 16)

\* C27: in a fixed cycle, the patterns of two addresses that differ in exactly
\* one bit differ in at least two bits.
C27_PatternSpreadsAddressBit ==
    AddressTestWritten =>
        \A a \in ProbedAddresses : \A i \in 0..31 :
            HammingDistance(
                GenerateAddressPattern(Xor32(ToWord(a), BitWord(i)), testCycleCounter),
                GenerateAddressPattern(ToWord(a), testCycleCounter)) >= 2

\* The butterfly test of the bank has run.
ButterflyTestRun ==
    \E j \in 1..Len(trace) : trace[j].e = "test" /\ trace[j].a = "butterfly"

\* C28: for every pair index 0..31 the second pattern of the current cycle is the
\* bitwise complement of the first.
C28_ButterflyPatternsComplementary ==
    ButterflyTestRun =>
        \A i \in 0..31 :
            ButterflyPattern2(i, testCycleCounter)
                = Not32(ButterflyPattern1(i, testCycleCounter))

\* C28: the butterfly test has run in cycle 0xFFFFFFFF, where pair 31 gets
\* 0x4444445A and 0xBBBBBBA5.
C28_Witness ==
    /\ ButterflyTestRun
    /\ testCycleCounter = << \HFFFF, \HFFFF >>
    /\ ButterflyPattern1(31, testCycleCounter) = << \H4444, \H445A >>
    /\ ButterflyPattern2(31, testCycleCounter) = << \HBBBB, \HBBA5 >>

\* C29: the cycle counter does not change between the write phase and the read
\* phase of an address test, and on memory that has kept every word stored the
\* read phase counts no error.
C29_AddressTestReadsBackItsPattern ==
    [][/\ pc = "addressRead" => testCycleCounter' = testCycleCounter
       /\ (pc = "addressRead" /\ pc' = "cycle" /\ mismatchesLeft = MaxMismatches) =>
             /\ errors' = 0
             /\ status'[Head(todo).b].addressTestSuccess
                    = status[Head(todo).b].addressTestSuccess + 1]_vars

\* C29: the address test of cycle 0xFFFFFFFF has returned 0 errors on sound
\* SRAM1, and a flash interrupt was served on the way.
C29_Witness ==
    /\ pc = "cycle"
    /\ Len(trace) = 2
    /\ trace[2] = Event("test", "address", "sram1")
    /\ testCycleCounter = << \HFFFF, \HFFFF >>
    /\ mismatchesLeft = MaxMismatches
    /\ eccErrorsDetected = 2
    /\ errors = 0
    /\ status["sram1"].addressTestSuccess = 1

\* The HAL calls of a RunCacheTest run that has met a failed erase or a failed
\* program, up to the failure.
FailedRuns == { << "unlock", "erase" >>, << "unlock", "erase", "program" >> }

\* C31: in the cache test a failed erase or program adds exactly 1 to
\* transactionFailCount and leads straight to the lock step, with no further
\* erase, program or read; the lock step locks the flash and returns to the test
\* function, which goes on with its next statement.
C31_CacheTransactionFailure ==
    [][/\ status'["cache"].transactionFailCount # status["cache"].transactionFailCount =>
             /\ status'["cache"].transactionFailCount
                    = status["cache"].transactionFailCount + 1
             /\ pc' = "cacheLock"
             /\ cacheRun'.steps \in FailedRuns
       /\ (pc = "cacheLock" /\ cacheRun.steps \in FailedRuns) =>
             /\ cacheRun'.locked
             /\ cacheRun'.steps = Append(cacheRun.steps, "lock")
             /\ pc' = "cycle"
             /\ todo' = Tail(todo)
             /\ status'["cache"].transactionFailCount
                    = status["cache"].transactionFailCount]_vars

\* C31: the second run of the first cycle met a failed program; the flash is
\* locked again and the test function is at its next statement.
C31_Witness ==
    /\ pc = "cycle"
    /\ testCycleCounter = 1
    /\ Len(todo) = 14
    /\ Head(todo) = EccSync
    /\ cacheRun = [locked |-> TRUE, errors |-> 0,
                   steps |-> << "unlock", "erase", "program", "lock" >>]
    /\ status["cache"].transactionFailCount = 1
    /\ status["cache"].dataTestTotal = 2

\* C40: a cache test run adds to dataTestSuccess only if the erase and the program
\* succeeded and both reads returned the pattern.
C40_CacheSuccessNeedsCleanRun ==
    [][status'["cache"].dataTestSuccess # status["cache"].dataTestSuccess =>
          /\ cacheRun.steps
                 = << "unlock", "erase", "program", "cachedRead", "invalidate", "directRead" >>
          /\ cacheRun.errors = 0
          /\ status'["cache"].transactionFailCount
                 = status["cache"].transactionFailCount]_vars

\* The events of the current cycle that are tests.
TestsRun == { j \in 1..Len(trace) : trace[j].e = "test" }

\* C32: the cycle counter changes only when MainTestCycle starts, by 1 modulo
\* 2^32, with no test of the cycle run yet; the rotation gets the new value,
\* every record saved in the cycle holds it, and the address test writes the
\* pattern of it.
C32_CycleCounterCountsCycles ==
    [][/\ testCycleCounter' # testCycleCounter => pc = "idle" /\ pc' = "cycle"
       /\ (pc = "idle" /\ pc' = "cycle") =>
             /\ testCycleCounter'[2] = (testCycleCounter[2] + 1) % \H10000
             /\ testCycleCounter'[1] =
                    (testCycleCounter[1] + (IF testCycleCounter'[2] = 0 THEN 1 ELSE 0))
                        % \H10000
             /\ trace'[1] = Event("rotate", "", "")
             /\ \A j \in 1..Len(trace') : trace'[j].e \notin {"test", "op"}
             /\ testConfig' =
                    RotateTestParameters(testConfig, CycleResidue(testCycleCounter'))
       /\ bkp' # bkp => bkp'[RTC_BKP_DR1] = testCycleCounter'
       /\ (pc = "cycle" /\ pc' = "addressRead") =>
             ReadWord(memory', Head(todo).start)
                 = GenerateAddressPattern(ToWord(Head(todo).start), testCycleCounter')]_vars

\* C32: the cycle after cycle 0xFFFFFFFF is cycle 0; its address test has run
\* on SRAM2 and its butterfly operation is saved with cycle 0.
C32_Witness ==
    /\ pc = "cycle"
    /\ testCycleCounter = << 0, 0 >>
    /\ Len(history) = 1
    /\ TestsRun # {}
    /\ trace[Len(trace)] = Event("op", "SRAM2 Butterfly Test", "")
    /\ bkp[RTC_BKP_DR1] = << 0, 0 >>
    /\ bkp[RTC_BKP_DR0] # 0

\* The phase of a cycle an event belongs to: 1 the rotation, 2 a basic test or
\* the cache test, 3 an advanced test, 4 the status report; 0 for the events in
\* between (operation tags, the ECC count, a watchdog refresh).
PhaseOf(event) ==
    CASE event.e = "rotate" -> 1
      [] event.e = "test" /\ event.a \in AdvancedPrimitives \cup {"modifiedCheckerboard"} -> 3
      [] event.e = "test" -> 2
      [] event.e = "statusReport" -> 4
      [] OTHER -> 0

\* The current cycle has run an advanced test.
AdvancedTestRun == \E j \in 1..Len(trace) : PhaseOf(trace[j]) = 3

\* C33: a cycle starts with the rotation and rotates once; no advanced test is
\* followed by a basic test and no status report by a test; advanced tests run
\* only in a cycle in which they are due; a completed cycle ends with the status
\* report, if there was one, and then the watchdog refresh.
C33_PhaseOrder ==
    /\ trace # << >> =>
          /\ trace[1] = Event("rotate", "", "")
          /\ \A j \in 2..Len(trace) : trace[j].e # "rotate"
    /\ \A i, j \in 1..Len(trace) :
          (i < j /\ PhaseOf(trace[i]) # 0 /\ PhaseOf(trace[j]) # 0) =>
              PhaseOf(trace[i]) <= PhaseOf(trace[j])
    /\ AdvancedTestRun =>
          AdvancedTestsDue(testCycleCounter,
                           IF currentTestMode = SRAM_ONLY_CYCLE
                           THEN testConfig.advancedTestInterval \div 2
                           ELSE testConfig.advancedTestInterval)
    /\ CycleCompleted =>
          /\ trace[Len(trace)] = Event("iwdg", "", "")
          /\ \A j \in 1..Len(trace) : PhaseOf(trace[j]) = 4 => j = Len(trace) - 1

\* C33: cycle 10 in stress mode has rotated, run the basic tests, then the
\* advanced tests, reported the status and fed the watchdog.
C33_Witness ==
    /\ CycleCompleted
    /\ testCycleCounter = 10
    /\ currentTestMode = STRESS_TEST_CYCLE
    /\ Len(trace) = 44
    /\ trace[1] = Event("rotate", "", "")
    /\ trace[3] = Event("test", "address", "flash")
    /\ trace[33] = Event("test", "checkerboard2", "ccm")
    /\ trace[38] = Event("test", "marchC", "sram1")
    /\ trace[43] = Event("statusReport", "", "")
    /\ trace[44] = Event("iwdg", "", "")

\* The operation codes UpdateTestOperation saves.
OperationCodes == { OperationCode(operation) : operation \in Operations }

\* C35: a watchdog boot that reports the ECC error code, that is a boot after a
\* flash ECC interrupt during a test and a hang in that test, reports the
\* operation code of a test.
C35_InFlightTagSurvivesEcc ==
    (pc = "eccInit" /\ uartLast.m = "watchdogReset"
         /\ uartLast.lastError = ERROR_ECC_DETECTED) =>
        uartLast.lastOperation \in OperationCodes

\* The record in DR0..DR2.
Record(b) == << b[RTC_BKP_DR0], b[RTC_BKP_DR1], b[RTC_BKP_DR2] >>

\* The records one SaveTestState call of UpdateTestOperation or of the flash
\* interrupt handler leaves, and the cleared record.
SingleCallRecords ==
    { << code, cycle, ERROR_NONE >> : code \in OperationCodes, cycle \in 1..MaxCrashCycles }
        \cup { << 0, cycle, ERROR_ECC_DETECTED >> : cycle \in 0..MaxCrashCycles }
        \cup { << 0, 0, ERROR_NONE >> }

\* C34: whenever the main context is outside SaveTestState and no interrupt is
\* pending, at boot too, the record is the one a single SaveTestState call
\* leaves.
C34_RecordNeverTorn ==
    (pc \notin {"saveDR0", "saveDR1", "saveDR2"} /\ flashSR = {}) =>
        Record(bkp) \in SingleCallRecords

\* The butterfly test of the bank has just returned.
ButterflyTestReturned ==
    /\ trace # << >>
    /\ trace[Len(trace)].e = "test"
    /\ trace[Len(trace)].a = "butterfly"

\* C36: on memory that returns what was last stored, RunEnhancedButterflyTest
\* returns 0 errors.
C36_ButterflyFindsSoundMemorySound ==
    ButterflyTestReturned => errors = 0

\* The addresses of the 4-byte word stored at addr.
WordAt(addr) == addr..(addr + 3)

\* The first and the last word of a loop that stores a word every `step` bytes
\* from startAddr while offset < size: the address test with its stride, the
\* checkerboard test with step 4.
LoopWords(startAddr, size, step) ==
    WordAt(startAddr) \cup WordAt(startAddr + ((size - 1) \div step) * step)

\* The words the tests of a bank store to in the current cycle, butterfly test
\* apart: the address test and the checkerboard test on the window, the advanced
\* tests on the first part of it.
WindowWords(cfg, b) ==
    LoopWords(TestStart(cfg, b), TestSize(cfg, b), cfg.addressTestStride)
        \cup LoopWords(TestStart(cfg, b), TestSize(cfg, b), 4)
        \cup LoopWords(TestStart(cfg, b), TestSize(cfg, b) \div 8, 4)

\* The words the butterfly test of a bank stores to in the current cycle.
ButterflyWords(cfg, b, cycle) ==
    LET pairs == ButterflyPairs(TestStart(cfg, b), TestSize(cfg, b), BankSize(b),
                                cfg.numButterflyPairs, ToWord(cycle))
    IN  UNION { WordAt(pairs[i][1]) \cup WordAt(pairs[i][2]) : i \in DOMAIN pairs }

\* The rotations so far started from the default configuration.
DefaultRun == history # << >> /\ history[1] = InitializeDefaultConfig

\* C37: in every cycle under the default configuration every word the tests of a
\* bank store to lies inside the bank, and every word of the butterfly test
\* inside the window.
C37_WordsInsideBankAndWindow ==
    (DefaultRun /\ testCycleCounter >= 1) =>
        \A b \in Banks :
            /\ WindowWords(testConfig, b) \cup ButterflyWords(testConfig, b, testCycleCounter)
                   \subseteq BankBase(b)..(BankBase(b) + BankSize(b) - 1)
            /\ ButterflyWords(testConfig, b, testCycleCounter)
                   \subseteq TestStart(testConfig, b)
                                 ..(TestStart(testConfig, b) + TestSize(testConfig, b) - 1)

\* maxOffset of a bank as RotateTestParameters computes it from the configuration,
\* before the reduction to 32 bits: a value below 0 wraps.
MaxOffset(cfg, b) == BankSize(b) - TestSize(cfg, b) - BankMargin(b)

\* C38: under the default configuration every call of RotateTestParameters finds
\* maxOffset above 0 for each of the four banks.
C38_MaxOffsetPositive ==
    DefaultRun =>
        /\ \A b \in Banks : MaxOffset(testConfig, b) > 0
        /\ ~DividesByZero(testConfig)

\* C38: the eleventh rotation has run with the large windows, where SRAM2 has
\* maxOffset = 0x8000 - 0x6000 - 0x400.
C38_Witness ==
    /\ DefaultRun
    /\ testCycleCounter = 11
    /\ history[11].sram2TestSize = \H6000
    /\ history[11].rotateStartingOffsets = 1
    /\ MaxOffset(history[11], "sram2") = \H1C00
    /\ MaxOffset(history[11], "flash") = \H5F000

\* No success counter of the status structure is above its total counter.
SuccessWithinTotal(st) ==
    /\ st.addressTestSuccess <= st.addressTestTotal
    /\ st.dataTestSuccess <= st.dataTestTotal
    /\ st.marchCTestSuccess <= st.marchCTestTotal
    /\ st.walkingTestSuccess <= st.walkingTestTotal

\* C39: in each of the five status structures every success counter is at most its
\* total counter, and within a session no step lowers totalErrors.
C39_CountersConsistent ==
    [][\A n \in StatusNames :
          /\ SuccessWithinTotal(status[n])
          /\ SuccessWithinTotal(status'[n])
          /\ (pc # "init" /\ pc' # "boot") =>
                status'[n].totalErrors >= status[n].totalErrors]_vars

\* C39: cycle 2 is over; a checkerboard run on SRAM1 found two errors in cycle 1
\* and the runs after it found none.
C39_Witness ==
    /\ CycleCompleted
    /\ testCycleCounter = 2
    /\ status["sram1"].dataTestTotal = 4
    /\ status["sram1"].dataTestSuccess = 3
    /\ status["sram1"].totalErrors = 2
    /\ status["sram1"].addressTestSuccess = 4
    /\ status["cache"].dataTestSuccess = 2

====
